---- MODULE Spec2Model ----
(***************************************************************************)
(* SessionManager (backend/app/services/session_manager.py): the pool of   *)
(* persistent ClaudeSDKClient instances, as an asyncio state machine.      *)
(*                                                                         *)
(* One action is one run of a coroutine between two suspension points      *)
(* (await client.connect(), await asyncio.sleep(..), await                 *)
(* client.disconnect(), await self.cleanup_task): asyncio runs the code    *)
(* between two awaits without interleaving.  _validate_client has no       *)
(* await inside, so awaiting it does not suspend.                          *)
(***************************************************************************)
EXTENDS Integers, Sequences, FiniteSets, TLC

\* ---------------------------------------------------------------- bounds
NumKeys == 2          \* session ids 1..NumKeys
NumTasks == 2         \* concurrent callers of the pool
MaxClients == 2       \* ClaudeSDKClient(options) invocations in one run
MaxTime == 2          \* time.time() ranges over 0..MaxTime
NumUsers == 2         \* user ids 1..NumUsers
NumDirs == 2          \* working directories 1..NumDirs
NumThreads == 2       \* threads calling one PersistentSessionStorage
MaxRequests == 3      \* calls of the service in one behaviour
MaxCalls == 2         \* calls of the storage in one behaviour
NumStored == 3        \* sessions in a storage file the calls are made on
MaxMessages == 2      \* messages the provider sends in answer to one prompt
MaxBlocks == 2        \* text blocks in one message
MaxLines == 3         \* lines of a provider record (<session_id>.jsonl)
Started == 5          \* time.time() when the process started, in the clock's unit
MaxRuns == 2          \* processes started on one storage file, one after the other

\* ----------------------------------------------------- the configuration
\* SessionManager(session_timeout, cleanup_interval), in the clock's unit
session_timeout == 1
cleanup_interval == 1

Keys == 1..NumKeys
Tasks == 1..NumTasks
Users == 1..NumUsers
WorkDirs == 1..NumDirs
Threads == 1..NumThreads
NoKey == 0
NoClient == 0
NoThread == 0
NoTime == -1
\* None, where a string is expected
None == "None"

VARIABLES
    clock,            \* time.time()
    active_sessions,  \* self.active_sessions, in dict (insertion) order
    clients,          \* every ClaudeSDKClient the factory was asked for
    cleanup_task,     \* self.cleanup_task: "none", "sleeping", "closing", "done"
    sweep,            \* locals of _cleanup_loop
    cancel_requested, \* cleanup_task.cancel() called, not yet delivered
    shutdown_called,  \* shutdown() has been called
    task,             \* the callers: position and locals of each
    event,            \* the result the last step returned or raised, if any
    touched,          \* keys whose last_used was set since the sweep's snapshot
    pass,             \* the pool and clock at the sweep's snapshot
    removed_pending   \* keys removed by cleanup_session, factory not called since

\* PersistentSessionStorage (backend/app/utils/session_storage.py)
VARIABLES
    files,            \* the storage directory: storage_file and its .tmp
    lock,             \* self._lock: the thread that holds it, or NoThread
    thread,           \* the threads inside the storage: position and locals
    running,          \* a process runs
    store_result,     \* what the storage call that ended in the last step returned
    runs,             \* the number of processes started so far
    found,            \* the kind of content the last process started found in storage_file
    last_left         \* per key, what the last successful call on it left, and in which run

\* ClaudeService (backend/app/services/claude_service.py) and the utilities
VARIABLES
    factory_calls,    \* each ClaudeSDKClient(options) made: the call it was made in, the options
    request,          \* the service call each caller is in, with its arguments
    response,         \* what the last service call returned or raised
    requests          \* the number of calls made of the service (of the storage, where
                      \* the storage is called directly)

pool_vars == <<clock, active_sessions, clients, cleanup_task, sweep, cancel_requested,
               shutdown_called, task, event, touched, pass, removed_pending>>
store_vars == <<files, lock, thread, running, store_result, runs, found, last_left>>
service_vars == <<factory_calls, request, response, requests>>
vars == <<pool_vars, store_vars, service_vars>>

\* ------------------------------------------------- the dict active_sessions
Has(p, k) == \E i \in DOMAIN p : p[i].session_id = k
Index(p, k) == CHOOSE i \in DOMAIN p : p[i].session_id = k
Get(p, k) == p[Index(p, k)]
\* (the entry is left in the dict)
Del_kept(p, k) == p
Del(p, k) == SelectSeq(p, LAMBDA e : e.session_id # k)
Put(p, k, e) == IF Has(p, k) THEN [p EXCEPT ![Index(p, k)] = e] ELSE Append(p, e)
KeyList(p) == [i \in DOMAIN p |-> p[i].session_id]

NewEntry(k, h, wd, u, used, created) ==
    [session_id |-> k, client |-> h, working_dir |-> wd, user_id |-> u,
     last_used |-> used, created_at |-> created]

\* --------------------------------------------------------------- clients
NewClient(k, st) ==
    [key |-> k, state |-> st, session |-> FALSE, closes |-> 0]

\* client.disconnect() is called: one more close attempt on h
CallDisconnect(cs, h) == [cs EXCEPT ![h].closes = @ + 1]

\* client.disconnect() finishes: it closed the connection, or it raised
DisconnectOutcomes == {"closed", "raised"}
EndDisconnect(cs, h, outcome) ==
    IF outcome = "closed" THEN [cs EXCEPT ![h].session = FALSE] ELSE cs

\* (every client is reported disconnected)
validate_client_never(h) == FALSE
\* lines 200-208: the client's _session is not None
validate_client(h) == clients[h].session

\* a live connection: connected by the factory, no close attempt made yet
Live(h) == clients[h].state = "connected" /\ clients[h].closes = 0

\* ------------------------------------------ the files of the session storage
\* line 26: the path of the durable file
storage_file == "storage_file"
\* (the temporary file is the durable file itself)
temp_file_in_place == storage_file
\* line 91: storage_file.with_suffix(".tmp")
temp_file == "temp_file"

\* The content of a file: "dict", a JSON object (items: the metadata records
\* in the object's order); "list" and "scalar", JSON that is no object;
\* "invalid", text that json.load rejects; "partial", the beginning of a
\* json.dump; "unreadable", a file open() or read() raises on for another
\* reason than its absence or its syntax; "missing", no file.
Content(kind, items) == [kind |-> kind, items |-> items]
JsonDict(items) == Content("dict", items)
Missing == Content("missing", <<>>)
Partial == Content("partial", <<>>)

\* lines 132-139; isoformat() gives a string, which datetime.fromisoformat
\* gives the time back from
isoformat(t) == [iso |-> t]
fromisoformat(s) == s.iso
\* f"Session {session_id[:8]}"
DefaultName(k) == "Session " \o ToString(k)

\* (an empty session_name is stored as it is)
session_name_or_default_kept(name, k) == IF name = None THEN DefaultName(k) ELSE name
\* line 136: session_name or f"Session {session_id[:8]}"
session_name_or_default(name, k) == IF name \in {None, ""} THEN DefaultName(k) ELSE name

\* lines 132-139: created_at is the argument or, without one, utcnow(), which
\* is read before the utcnow() of updated_at
session_metadata(k, u, wd, name, created, now) ==
    [session_id |-> k, user_id |-> u, working_directory |-> wd,
     session_name |-> session_name_or_default(name, k),
     created_at |-> isoformat(IF created = NoTime THEN now ELSE created),
     updated_at |-> isoformat(now)]

\* (text that is no JSON is returned as it is)
read_storage_syntax_unchecked(fs) ==
    LET c == fs[storage_file] IN
    CASE c.kind = "unreadable" -> [raised |-> TRUE, data |-> Missing]
      [] c.kind = "missing" -> [raised |-> FALSE, data |-> JsonDict(<<>>)]
      [] OTHER -> [raised |-> FALSE, data |-> c]
\* lines 73-85: json.load of the file; a file that is missing or is no JSON
\* reads as {}, any other error is raised
read_storage(fs) ==
    LET c == fs[storage_file] IN
    CASE c.kind = "unreadable" -> [raised |-> TRUE, data |-> Missing]
      [] c.kind \in {"missing", "invalid", "partial"} ->
             [raised |-> FALSE, data |-> JsonDict(<<>>)]
      [] OTHER -> [raised |-> FALSE, data |-> c]

\* line 92: open(temp_file, "w") creates or truncates the file
OpenTemp(fs) == [fs EXCEPT ![temp_file] = Partial]
\* line 93: json.dump and the close of the file
Dump(fs, items) == [fs EXCEPT ![temp_file] = JsonDict(items)]
\* line 96: temp_file.replace(storage_file)
Replace(fs) ==
    [p \in DOMAIN fs |-> IF p = storage_file THEN fs[temp_file]
                         ELSE IF p = temp_file THEN Missing ELSE fs[p]]
\* lines 87-96, when nothing fails
write_storage(fs, items) == Replace(Dump(OpenTemp(fs), items))

\* a storage call made by one thread while no other thread is inside the
\* storage: the files it leaves, what it returns
Returned(fs, ret) == [files |-> fs, ret |-> ret]

\* lines 128-164; io_ok: the write raises nothing
storage_store_session(fs, k, u, wd, name, created, now, io_ok) ==
    LET r == read_storage(fs) IN
    IF r.raised \/ r.data.kind # "dict" \/ ~io_ok
    THEN Returned(fs, FALSE)
    ELSE Returned(write_storage(fs, Put(r.data.items, k,
                      session_metadata(k, u, wd, name, created, now))), TRUE)

\* None, where metadata is expected
NoMeta == [session_id |-> NoKey]

\* lines 176-206: data.get(session_id); an exception gives None
storage_get_session(fs, k) ==
    LET r == read_storage(fs) IN
    IF r.raised \/ r.data.kind # "dict" THEN NoMeta
    ELSE IF Has(r.data.items, k) THEN Get(r.data.items, k) ELSE NoMeta

\* line 209: limit: int = 10, offset: int = 0
default_limit == 10
default_offset == 0

\* (the sessions are left in the order of the file)
sort_as_stored(s) == s
\* line 233: sort(key=created_at, reverse=True), a stable sort: sessions of
\* one creation time keep the order they have in the file
RECURSIVE sort_newest_first(_)
sort_newest_first(s) ==
    IF s = <<>> THEN <<>>
    ELSE LET rest == sort_newest_first(SubSeq(s, 1, Len(s) - 1))
             m == s[Len(s)]
             n == Cardinality({i \in 1..Len(rest) :
                     fromisoformat(rest[i].created_at) >= fromisoformat(m.created_at)})
         IN SubSeq(rest, 1, n) \o <<m>> \o SubSeq(rest, n + 1, Len(rest))

\* lines 222-257: the user's sessions, newest first, then
\* user_sessions[offset : offset + limit]; data.items() raises on data that
\* is no dict, and an exception gives []
storage_list_user_sessions(fs, u, limit, offset) ==
    LET r == read_storage(fs) IN
    IF r.raised \/ r.data.kind # "dict" THEN <<>>
    ELSE LET user_sessions == sort_newest_first(
                 SelectSeq(r.data.items, LAMBDA m : m.user_id = u))
             last == IF offset + limit < Len(user_sessions)
                     THEN offset + limit ELSE Len(user_sessions)
         IN SubSeq(user_sessions, offset + 1, last)

\* lines 269-294
storage_remove_session(fs, k, io_ok) ==
    LET r == read_storage(fs) IN
    IF r.raised \/ r.data.kind # "dict" THEN Returned(fs, FALSE)
    ELSE IF ~Has(r.data.items, k) THEN Returned(fs, TRUE)
    ELSE IF ~io_ok THEN Returned(fs, FALSE)
    ELSE Returned(write_storage(fs, Del(r.data.items, k)), TRUE)

\* (a session created at cutoff_date is old too)
old_sessions_le(items, cutoff_date) ==
    KeyList(SelectSeq(items, LAMBDA m : fromisoformat(m.created_at) <= cutoff_date))
\* lines 313-326: the keys of the sessions created before cutoff_date, in
\* the file's order
old_sessions(items, cutoff_date) ==
    KeyList(SelectSeq(items, LAMBDA m : fromisoformat(m.created_at) < cutoff_date))
\* lines 329-330: del data[session_id] for each of them
without_sessions(items, ids) ==
    SelectSeq(items, LAMBDA m : \A i \in DOMAIN ids : ids[i] # m.session_id)

\* a thread inside a call of the storage: pc is "lock" at `with self._lock:`,
\* then "open", "dump" or "replace", the next line of _write_storage; items
\* is the data it is writing; cleanup_old_sessions has its cutoff_date and
\* the keys it removes
InStorage(pc, op, k, u, wd, name, created, items) ==
    [pc |-> pc, op |-> op, sid |-> k, user_id |-> u, working_directory |-> wd,
     session_name |-> name, created_at |-> created, items |-> items,
     cutoff_date |-> NoTime, sessions_to_remove |-> <<>>]
\* a thread outside the storage
IdleThread == InStorage("idle", "none", NoKey, 0, 0, None, NoTime, <<>>)
\* what a storage call returned; io_error: after a write that raised
Outcome(op, k, ret, io_error) ==
    [op |-> op, sid |-> k, ret |-> ret, io_error |-> io_error,
     user_id |-> 0, limit |-> 0, offset |-> 0]
\* what list_user_sessions(u, limit, offset) returned
Listed(u, limit, offset, ret) ==
    [Outcome("list_user_sessions", NoKey, ret, FALSE)
        EXCEPT !.user_id = u, !.limit = limit, !.offset = offset]
NoOutcome == Outcome("none", NoKey, FALSE, FALSE)
\* nothing is known to have been left for any key
NothingLeft == [k \in Keys |-> [meta |-> NoMeta, run |-> 0]]

\* ------------------------------------------------------------ the service
NoDir == 0
NoUser == 0
\* a call of the service: stage is "pool" while its call of the pool is
\* suspended, "retry" while it sleeps before its next attempt, "done" after
Request(op, stage, k, u, wd, name, attempt) ==
    [op |-> op, stage |-> stage, sid |-> k, user_id |-> u, working_dir |-> wd,
     session_name |-> name, attempt |-> attempt]
NoRequest == Request("none", "done", NoKey, NoUser, NoDir, None, 0)
Response(op, kind, k, u) == [op |-> op, kind |-> kind, sid |-> k, user_id |-> u]
NoResponse == Response("none", "none", NoKey, NoUser)

\* ---------------------------------------------------------------- events
\* the result of the call or of the sweep step that ended in the last step;
\* clean: a sweep step of a pass no caller's step interleaved with
Event(op, kind, k, h, clean) ==
    [op |-> op, kind |-> kind, sid |-> k, client |-> h, clean |-> clean]
Result(op, kind, k, h) == Event(op, kind, k, h, FALSE)
NoEvent == Result("none", "none", NoKey, NoClient)

Idle == [pc |-> "idle", sid |-> NoKey, is_new |-> FALSE, client |-> NoClient,
         old |-> NoClient, ids |-> <<>>]

NoPass == [pool |-> <<>>, time |-> 0, clean |-> FALSE]
NoSweep == [wake_at |-> 0, key |-> NoKey, client |-> NoClient, queue |-> <<>>]

\* a caller's step while a sweep pass is under way interleaves with the pass
Interleaved == IF pass.clean THEN NoPass ELSE pass

Init ==
    /\ clock = 0
    /\ active_sessions = <<>>
    /\ clients = <<>>
    /\ cleanup_task = "none"
    /\ sweep = NoSweep
    /\ cancel_requested = FALSE
    /\ shutdown_called = FALSE
    /\ task = [t \in Tasks |-> Idle]
    /\ event = NoEvent
    /\ touched = {}
    /\ pass = NoPass
    /\ removed_pending = {}
    /\ files = [p \in {storage_file, temp_file} |-> IF p = storage_file THEN JsonDict(<<>>) ELSE Missing]
    /\ lock = NoThread
    /\ thread = [th \in Threads |-> IdleThread]
    /\ running = TRUE
    /\ store_result = NoOutcome
    /\ runs = 1
    /\ found = "dict"
    /\ last_left = NothingLeft
    /\ factory_calls = <<>>
    /\ request = [t \in Tasks |-> NoRequest]
    /\ response = NoResponse
    /\ requests = 0

\* (one call at a time: a call begins when no other call is under way)
FreeSlot_exclusive(t) == t = 1 /\ \A u \in Tasks : task[u].pc = "idle"
\* The callers are interchangeable: a new call takes the lowest idle slot.
FreeSlot(t) ==
    /\ task[t].pc = "idle"
    /\ \A u \in Tasks : u < t => task[u].pc # "idle"

\* creations the callers suspended in an eviction are still to make
Reserved == Cardinality({t \in Tasks : task[t].pc = "goc_disconnect"})

\* ------------------------------------------------ get_or_create_session
GOC == "get_or_create_session"

\* keys the provider may assign to a new session: never used before
FreshKeys ==
    {k \in Keys : /\ ~Has(active_sessions, k)
                  /\ \A h \in DOMAIN clients : clients[h].key # k
                  /\ \A t \in Tasks : task[t].sid # k}

\* "Start cleanup task if not running", at time now
StartCleanupTask(now) ==
    IF cleanup_task \in {"none", "done"}
    THEN /\ cleanup_task' = "sleeping"
         /\ sweep' = [NoSweep EXCEPT !.wake_at = now + cleanup_interval]
    ELSE UNCHANGED <<cleanup_task, sweep>>

\* lines 113-132 and 179-188: ClaudeSDKClient(options) is constructed (it may
\* raise) and connect() is called; cs and p are the clients and the pool as
\* the code before left them
CreateClient(t, k, new, old, cs, p) ==
    LET h == Len(cs) + 1 IN
    /\ active_sessions' = p
    /\ removed_pending' = removed_pending \ {k}
    /\ \E constructed \in BOOLEAN :
          IF constructed
          THEN /\ clients' = Append(cs, NewClient(k, "connecting"))
               /\ task' = [task EXCEPT ![t] = [pc |-> "goc_connect", sid |-> k,
                               is_new |-> new, client |-> h, old |-> old,
                               ids |-> <<>>]]
               /\ event' = NoEvent
          ELSE /\ clients' = Append(cs, NewClient(k, "failed"))
               /\ task' = [task EXCEPT ![t] = Idle]
               /\ event' = Result(GOC, "creation_failed", k, h)

\* (the arguments of the call that began last)
call_args_shared(t) ==
    request[CHOOSE o \in Tasks :
                /\ request[o].stage # "done" \/ \A q \in Tasks : request[q].stage = "done"
                /\ \A q \in Tasks : request[q].stage # "done" => q <= o]
\* lines 63-69: working_dir and user_id are parameters of the coroutine, each
\* call has its own
call_args(t) == request[t]

\* lines 149-177: the entry is stored under k (time.time() is read twice, for
\* last_used and then for created_at), the cleanup task is started, the client
\* is returned
StoreSession(t, k, h, cs) ==
    \E d \in {0, 1} :
        /\ clock + d <= MaxTime
        /\ clock' = clock + d
        /\ active_sessions' = Put(active_sessions, k,
                                  NewEntry(k, h, call_args(t).working_dir,
                                           call_args(t).user_id, clock, clock + d))
        /\ clients' = [cs EXCEPT ![h].key = k]
        /\ StartCleanupTask(clock + d)
        /\ touched' = IF cleanup_task = "closing" THEN touched \cup {k} ELSE {}
        /\ task' = [task EXCEPT ![t] = Idle]
        /\ event' = Result(GOC, "created", k, h)

\* lines 86-132: the call, up to its first suspension; budget: the number of
\* clients that may be constructed
goc_call(t, k, new, budget) ==
    /\ FreeSlot(t)
    /\ pass' = Interleaved
    /\ UNCHANGED <<cancel_requested, shutdown_called>>
    /\ IF Has(active_sessions, k)
       THEN LET h == Get(active_sessions, k).client IN
            IF validate_client(h)
            THEN \* lines 92-101: reuse
                 /\ active_sessions' =
                        [active_sessions EXCEPT ![Index(active_sessions, k)].last_used = clock]
                 /\ touched' = IF cleanup_task = "closing" THEN touched \cup {k} ELSE {}
                 /\ event' = Result(GOC, "reused", k, h)
                 /\ UNCHANGED <<clock, clients, cleanup_task, sweep, task, removed_pending>>
            ELSE \* lines 102-110 and 238-243: cleanup_session calls disconnect()
                 /\ Len(clients) + Reserved < budget
                 /\ clients' = CallDisconnect(clients, h)
                 /\ task' = [task EXCEPT ![t] = [pc |-> "goc_disconnect", sid |-> k,
                                 is_new |-> new, client |-> h, old |-> h, ids |-> <<>>]]
                 /\ event' = NoEvent
                 /\ UNCHANGED <<clock, active_sessions, cleanup_task, sweep, touched,
                                removed_pending>>
       ELSE /\ Len(clients) + Reserved < budget
            /\ CreateClient(t, k, new, NoClient, clients, active_sessions)
            /\ UNCHANGED <<clock, cleanup_task, sweep, touched>>

\* the call, with the clients of one run bounded by MaxClients
get_or_create_session(t, k, new) == goc_call(t, k, new, MaxClients)

\* lines 243-261 inside get_or_create_session, then 113-132: disconnect()
\* finished, the entry is deleted (KeyError when it is gone), the client is
\* created
goc_after_disconnect(t) ==
    /\ task[t].pc = "goc_disconnect"
    /\ pass' = Interleaved
    /\ UNCHANGED <<clock, cleanup_task, sweep, cancel_requested, shutdown_called, touched>>
    /\ \E outcome \in DisconnectOutcomes :
         LET k == task[t].sid
             cs == EndDisconnect(clients, task[t].client, outcome) IN
         IF Has(active_sessions, k)
         THEN CreateClient(t, k, task[t].is_new, task[t].old, cs,
                           Del(active_sessions, k))
         ELSE /\ clients' = cs
              /\ task' = [task EXCEPT ![t] = Idle]
              /\ event' = Result(GOC, "KeyError", k, task[t].client)
              /\ UNCHANGED <<active_sessions, removed_pending>>

\* lines 132-157: connect() finished
goc_after_connect(t) ==
    /\ task[t].pc = "goc_connect"
    /\ pass' = Interleaved
    /\ UNCHANGED <<cancel_requested, shutdown_called, removed_pending>>
    /\ LET h == task[t].client
           k == task[t].sid IN
       \E connected \in BOOLEAN :
         IF ~connected
         THEN /\ clients' = [clients EXCEPT ![h].state = "failed"]
              /\ task' = [task EXCEPT ![t] = Idle]
              /\ event' = Result(GOC, "creation_failed", k, h)
              /\ UNCHANGED <<clock, active_sessions, cleanup_task, sweep, touched>>
         ELSE LET cs == [clients EXCEPT ![h].state = "connected", ![h].session = TRUE] IN
              IF task[t].is_new
              THEN /\ clients' = cs
                   /\ task' = [task EXCEPT ![t].pc = "goc_sleep"]
                   /\ event' = NoEvent
                   /\ UNCHANGED <<clock, active_sessions, cleanup_task, sweep, touched>>
              ELSE StoreSession(t, k, h, cs)

\* lines 137-177: asyncio.sleep(0.1) finished; the client's session_id, when
\* it has one that differs, replaces the requested id
goc_after_sleep(t) ==
    /\ task[t].pc = "goc_sleep"
    /\ pass' = Interleaved
    /\ UNCHANGED <<cancel_requested, shutdown_called, removed_pending>>
    /\ \E actual_session_id \in {NoKey} \cup FreshKeys :
         LET k == IF actual_session_id # NoKey /\ actual_session_id # task[t].sid
                  THEN actual_session_id ELSE task[t].sid IN
         StoreSession(t, k, task[t].client, clients)

\* ------------------------------------------------------- cleanup_session
RECURSIVE SkipAbsent(_, _)
\* cleanup_session returns False at once for an id that is not in the pool:
\* the loop over ids goes on, without suspending, to the first id present
SkipAbsent(ids, p) ==
    IF ids = <<>> THEN <<>>
    ELSE IF Has(p, Head(ids)) THEN ids ELSE SkipAbsent(Tail(ids), p)

\* lines 229-243: the call, up to await client.disconnect()
cleanup_session(t, k) ==
    /\ FreeSlot(t)
    /\ pass' = Interleaved
    /\ UNCHANGED <<clock, active_sessions, cleanup_task, sweep, cancel_requested,
                   shutdown_called, touched, removed_pending>>
    /\ IF ~Has(active_sessions, k)
       THEN /\ event' = Result("cleanup_session", "false", k, NoClient)
            /\ UNCHANGED <<clients, task>>
       ELSE LET h == Get(active_sessions, k).client IN
            /\ clients' = CallDisconnect(clients, h)
            /\ task' = [task EXCEPT ![t] = [pc |-> "cs_disconnect", sid |-> k,
                            is_new |-> FALSE, client |-> h, old |-> NoClient,
                            ids |-> <<>>]]
            /\ event' = NoEvent

\* lines 243-272: disconnect() finished (an exception of it is logged), the
\* entry is deleted: del raises KeyError when it is gone
cs_after_disconnect(t) ==
    /\ task[t].pc = "cs_disconnect"
    /\ pass' = Interleaved
    /\ UNCHANGED <<clock, cleanup_task, sweep, cancel_requested, shutdown_called, touched>>
    /\ \E outcome \in DisconnectOutcomes :
         LET k == task[t].sid
             h == task[t].client IN
         /\ clients' = EndDisconnect(clients, h, outcome)
         /\ task' = [task EXCEPT ![t] = Idle]
         /\ IF Has(active_sessions, k)
            THEN /\ active_sessions' = Del(active_sessions, k)
                 /\ removed_pending' = removed_pending \cup {k}
                 /\ event' = Result("cleanup_session", "true", k, h)
            ELSE /\ event' = Result("cleanup_session", "KeyError", k, h)
                 /\ UNCHANGED <<active_sessions, removed_pending>>

\* -------------------------------------------------------------- shutdown
\* lines 410-418: the loop over session_ids, up to the next disconnect()
ShutdownLoop(t, ids, p, cs) ==
    LET rest == SkipAbsent(ids, p) IN
    /\ active_sessions' = p
    /\ IF rest = <<>>
       THEN /\ clients' = cs
            /\ task' = [task EXCEPT ![t] = Idle]
            /\ event' = Result("shutdown", "returned", NoKey, NoClient)
       ELSE LET k == Head(rest)
                h == Get(p, k).client IN
            /\ clients' = CallDisconnect(cs, h)
            /\ task' = [task EXCEPT ![t] = [pc |-> "sd_disconnect", sid |-> k,
                            is_new |-> FALSE, client |-> h, old |-> NoClient,
                            ids |-> Tail(rest)]]
            /\ event' = NoEvent

\* lines 388-411: the call (the application's lifespan makes it once, at
\* its end: core/lifecycle.py line 121); a running cleanup task is cancelled
\* and awaited
shutdown(t) ==
    /\ FreeSlot(t)
    /\ ~shutdown_called
    /\ shutdown_called' = TRUE
    /\ pass' = Interleaved
    /\ UNCHANGED <<clock, cleanup_task, sweep, touched, removed_pending>>
    /\ IF cleanup_task \in {"sleeping", "closing"}
       THEN /\ cancel_requested' = TRUE
            /\ task' = [task EXCEPT ![t].pc = "sd_await"]
            /\ event' = NoEvent
            /\ UNCHANGED <<active_sessions, clients>>
       ELSE /\ ShutdownLoop(t, KeyList(active_sessions), active_sessions, clients)
            /\ UNCHANGED cancel_requested

\* lines 399-411: the cancelled cleanup task has ended
sd_after_await(t) ==
    /\ task[t].pc = "sd_await"
    /\ ~cancel_requested
    /\ pass' = Interleaved
    /\ ShutdownLoop(t, KeyList(active_sessions), active_sessions, clients)
    /\ UNCHANGED <<clock, cleanup_task, sweep, cancel_requested, shutdown_called,
                   touched, removed_pending>>

\* lines 243-272 inside shutdown, then 410-418
sd_after_disconnect(t) ==
    /\ task[t].pc = "sd_disconnect"
    /\ pass' = Interleaved
    /\ UNCHANGED <<clock, cleanup_task, sweep, cancel_requested, shutdown_called, touched>>
    /\ \E outcome \in DisconnectOutcomes :
         LET k == task[t].sid
             cs == EndDisconnect(clients, task[t].client, outcome) IN
         IF Has(active_sessions, k)
         THEN /\ removed_pending' = removed_pending \cup {k}
              /\ ShutdownLoop(t, task[t].ids, Del(active_sessions, k), cs)
         ELSE /\ clients' = cs
              /\ task' = [task EXCEPT ![t] = Idle]
              /\ event' = Result("shutdown", "KeyError", k, task[t].client)
              /\ UNCHANGED <<active_sessions, removed_pending>>

\* --------------------------------------------------------- _cleanup_loop
\* (>= for the > of line 298)
IsInactive_ge(e, now) == now - e.last_used >= session_timeout
\* line 298
IsInactive(e, now) == now - e.last_used > session_timeout

\* lines 293-299
sessions_to_remove ==
    KeyList(SelectSeq(active_sessions, LAMBDA e : IsInactive(e, clock)))

\* lines 311-312, then 291: the loop over sessions_to_remove, up to the next
\* disconnect(); at its end the task sleeps again
SweepLoop(queue, p, cs, ps, kind, k0, h0) ==
    LET rest == SkipAbsent(queue, p) IN
    /\ active_sessions' = p
    /\ event' = Event("sweep", kind, k0, h0, ps.clean)
    /\ IF rest = <<>>
       THEN /\ clients' = cs
            /\ cleanup_task' = "sleeping"
            /\ sweep' = [NoSweep EXCEPT !.wake_at = clock + cleanup_interval]
            /\ pass' = NoPass
            /\ touched' = {}
       ELSE LET k == Head(rest)
                h == Get(p, k).client IN
            /\ clients' = CallDisconnect(cs, h)
            /\ cleanup_task' = "closing"
            /\ sweep' = [wake_at |-> 0, key |-> k, client |-> h, queue |-> Tail(rest)]
            /\ pass' = ps
            /\ touched' = IF cleanup_task = "closing" THEN touched ELSE {}

\* lines 291-312: asyncio.sleep(cleanup_interval) finished: one pass starts
sweep_wake ==
    /\ cleanup_task = "sleeping"
    /\ ~cancel_requested
    /\ clock >= sweep.wake_at
    /\ SweepLoop(sessions_to_remove, active_sessions, clients,
                 [pool |-> active_sessions, time |-> clock, clean |-> TRUE],
                 "snapshot", NoKey, NoClient)
    /\ UNCHANGED <<clock, cancel_requested, shutdown_called, task, removed_pending>>

\* lines 243-272 inside the loop, then 311-312; the KeyError of del ends the
\* task (lines 328-335)
sweep_after_disconnect ==
    /\ cleanup_task = "closing"
    /\ ~cancel_requested
    /\ UNCHANGED <<clock, cancel_requested, shutdown_called, task>>
    /\ \E outcome \in DisconnectOutcomes :
         LET k == sweep.key
             cs == EndDisconnect(clients, sweep.client, outcome) IN
         IF Has(active_sessions, k)
         THEN /\ removed_pending' = removed_pending \cup {k}
              /\ SweepLoop(sweep.queue, Del(active_sessions, k), cs, pass,
                           "evicted", k, sweep.client)
         ELSE /\ clients' = cs
              /\ cleanup_task' = "done"
              /\ sweep' = NoSweep
              /\ pass' = NoPass
              /\ touched' = {}
              /\ event' = Event("sweep", "KeyError", k, sweep.client, pass.clean)
              /\ UNCHANGED <<active_sessions, removed_pending>>

\* lines 321-327: CancelledError is raised at the await the task is
\* suspended in (the sleep, or disconnect() inside cleanup_session: it is no
\* Exception, so the del after it is skipped) and ends the task
sweep_cancelled ==
    /\ cleanup_task \in {"sleeping", "closing"}
    /\ cancel_requested
    /\ cancel_requested' = FALSE
    /\ cleanup_task' = "done"
    /\ sweep' = NoSweep
    /\ pass' = NoPass
    /\ touched' = {}
    /\ event' = Result("sweep", "cancelled", sweep.key, sweep.client)
    /\ UNCHANGED <<clock, active_sessions, clients, shutdown_called, task, removed_pending>>

\* ------------------------------------------------------- the environment
\* time passes
Tick ==
    /\ clock < MaxTime
    /\ clock' = clock + 1
    /\ event' = NoEvent
    /\ UNCHANGED <<active_sessions, clients, cleanup_task, sweep, cancel_requested,
                   shutdown_called, task, touched, pass, removed_pending>>

\* the connection of a pooled client is lost: its _session becomes None
ConnectionLost(h) ==
    /\ \E i \in DOMAIN active_sessions : active_sessions[i].client = h
    /\ clients[h].session
    /\ clients' = [clients EXCEPT ![h].session = FALSE]
    /\ event' = NoEvent
    /\ UNCHANGED <<clock, active_sessions, cleanup_task, sweep, cancel_requested,
                   shutdown_called, task, touched, pass, removed_pending>>

\* the pool alone: no call of the service or of the storage is made
PoolOnly == UNCHANGED <<store_vars, service_vars>>

Next ==
    \/ \E t \in Tasks, k \in Keys, new \in BOOLEAN :
           get_or_create_session(t, k, new) /\ PoolOnly
    \/ \E t \in Tasks : goc_after_disconnect(t) /\ PoolOnly
    \/ \E t \in Tasks : goc_after_connect(t) /\ PoolOnly
    \/ \E t \in Tasks : goc_after_sleep(t) /\ PoolOnly
    \/ \E t \in Tasks, k \in Keys : cleanup_session(t, k) /\ PoolOnly
    \/ \E t \in Tasks : cs_after_disconnect(t) /\ PoolOnly
    \/ \E t \in Tasks : shutdown(t) /\ PoolOnly
    \/ \E t \in Tasks : sd_after_await(t) /\ PoolOnly
    \/ \E t \in Tasks : sd_after_disconnect(t) /\ PoolOnly
    \/ sweep_wake /\ PoolOnly
    \/ sweep_after_disconnect /\ PoolOnly
    \/ sweep_cancelled /\ PoolOnly
    \/ Tick /\ PoolOnly
    \/ \E h \in DOMAIN clients : ConnectionLost(h) /\ PoolOnly

Spec == Init /\ [][Next]_vars

\* ================================================= PersistentSessionStorage
\* One storage object per process, called from several threads; the process
\* may die at any point and another be started on the same file.  A call is
\* one step up to its write, then one step per line of _write_storage.

\* (the lock is taken without waiting for it)
LockFree_ignored == TRUE
\* `with self._lock:` goes on when no thread holds the lock
LockFree == lock = NoThread

\* th calls the storage: it is constructed and th is in no call (the
\* threads are interchangeable: a new call is made by the lowest idle one)
Callable(th) ==
    /\ running
    /\ thread[th].pc = "idle"
    /\ \A o \in Threads : o < th => thread[o].pc # "idle"
    /\ \A o \in Threads : thread[o].op # "init"
    /\ requests < MaxCalls
    /\ requests' = requests + 1

\* the call of th ends: the lock is released and the result returned; a call
\* that succeeded on key k leaves meta for k
Return(th, op, k, ret, io_error) ==
    /\ thread' = [thread EXCEPT ![th] = IdleThread]
    /\ lock' = NoThread
    /\ store_result' = Outcome(op, k, ret, io_error)

Leaves(k, meta) == last_left' = [last_left EXCEPT ![k] = [meta |-> meta, run |-> runs]]

\* the call of th goes on to _write_storage(items)
Write(th, op, k, u, wd, name, created, items) ==
    /\ thread' = [thread EXCEPT ![th] =
                      InStorage("open", op, k, u, wd, name, created, items)]
    /\ store_result' = NoOutcome

\* th is at `with self._lock:` of its call op
AtLock(th, op) ==
    /\ running
    /\ thread[th].pc = "lock"
    /\ thread[th].op = op
    /\ LockFree

\* th calls a method that changes the file, and comes to its lock
Call(th, op, k, u, wd, name, created) ==
    /\ Callable(th)
    /\ thread' = [thread EXCEPT ![th] = InStorage("lock", op, k, u, wd, name, created, <<>>)]
    /\ store_result' = NoOutcome
    /\ UNCHANGED <<files, lock, running, runs, found, last_left>>

\* line 128: store_session is called
store_session(th, k, u, wd, name, created) ==
    Call(th, "store_session", k, u, wd, name, created)

\* lines 129-142: store_session from its lock to its write; a TypeError of
\* data[session_id] = .. on data that is no dict is caught like any exception
store_session_locked(th) ==
    /\ AtLock(th, "store_session")
    /\ UNCHANGED <<files, running, runs, found, last_left>>
    /\ LET r == read_storage(files)
           a == thread[th]
       IN IF r.raised \/ r.data.kind # "dict"
          THEN Return(th, "store_session", a.sid, FALSE, FALSE)
          ELSE /\ lock' = th
               /\ Write(th, "store_session", a.sid, a.user_id, a.working_directory,
                        a.session_name, a.created_at,
                        Put(r.data.items, a.sid,
                            session_metadata(a.sid, a.user_id, a.working_directory,
                                             a.session_name, a.created_at, clock)))

\* lines 176-206
get_session_stored(th, k) ==
    /\ Callable(th)
    /\ LockFree
    /\ Return(th, "get_session", k, storage_get_session(files, k), FALSE)
    /\ UNCHANGED <<files, running, runs, found, last_left>>

\* lines 208-257
list_user_sessions_stored(th, u, limit, offset) ==
    /\ Callable(th)
    /\ LockFree
    /\ thread' = [thread EXCEPT ![th] = IdleThread]
    /\ lock' = NoThread
    /\ store_result' = Listed(u, limit, offset,
                              storage_list_user_sessions(files, u, limit, offset))
    /\ UNCHANGED <<files, running, runs, found, last_left>>

\* line 269: remove_session is called
remove_session(th, k) ==
    Call(th, "remove_session", k, 0, 0, None, NoTime)

\* lines 270-284: remove_session from its lock to its write;
\* `session_id in data` is False on a list and raises on a scalar
remove_session_locked(th) ==
    /\ AtLock(th, "remove_session")
    /\ UNCHANGED <<files, running, runs, found>>
    /\ LET r == read_storage(files)
           k == thread[th].sid
       IN IF r.raised \/ r.data.kind = "scalar"
          THEN Return(th, "remove_session", k, FALSE, FALSE) /\ UNCHANGED last_left
          ELSE IF r.data.kind = "list" \/ ~Has(r.data.items, k)
          THEN Return(th, "remove_session", k, TRUE, FALSE) /\ Leaves(k, NoMeta)
          ELSE /\ lock' = th
               /\ Write(th, "remove_session", k, 0, 0, None, NoTime, Del(r.data.items, k))
               /\ UNCHANGED last_left

\* lines 306-309: cleanup_old_sessions(max_age_days) is called; the cutoff
\* date is computed before the lock is taken
cleanup_old_sessions(th, max_age_days) ==
    /\ Callable(th)
    /\ thread' = [thread EXCEPT ![th] =
                     [InStorage("lock", "cleanup_old_sessions", NoKey, 0, 0, None, NoTime, <<>>)
                         EXCEPT !.cutoff_date = clock - max_age_days]]
    /\ store_result' = NoOutcome
    /\ UNCHANGED <<files, lock, running, runs, found, last_left>>

\* lines 311-343: cleanup_old_sessions from its lock to its write;
\* data.items() raises on data that is no dict, and 0 is returned
cleanup_old_sessions_locked(th) ==
    /\ AtLock(th, "cleanup_old_sessions")
    /\ UNCHANGED <<files, running, runs, found, last_left>>
    /\ LET r == read_storage(files)
           ids == IF r.raised \/ r.data.kind # "dict" THEN <<>>
                  ELSE old_sessions(r.data.items, thread[th].cutoff_date)
       IN IF ids = <<>>
          THEN Return(th, "cleanup_old_sessions", NoKey, 0, FALSE)
          ELSE /\ lock' = th
               /\ thread' = [thread EXCEPT ![th].pc = "open",
                                           ![th].items = without_sessions(r.data.items, ids),
                                           ![th].sessions_to_remove = ids]
               /\ store_result' = NoOutcome

\* a write of th raised: store_session and remove_session return False,
\* cleanup_old_sessions 0; the
\* exception leaves __init__ and the process ends
Raised(th) ==
    IF thread[th].op = "init"
    THEN /\ running' = FALSE
         /\ thread' = [o \in Threads |-> IdleThread]
         /\ lock' = NoThread
         /\ store_result' = Outcome("init", NoKey, FALSE, TRUE)
    ELSE /\ Return(th, thread[th].op, thread[th].sid,
                   IF thread[th].op = "cleanup_old_sessions" THEN 0 ELSE FALSE, TRUE)
         /\ UNCHANGED running

\* line 92
write_open(th) ==
    /\ thread[th].pc = "open"
    /\ UNCHANGED <<runs, found, last_left>>
    /\ \E io_ok \in BOOLEAN :
         IF io_ok
         THEN /\ files' = OpenTemp(files)
              /\ thread' = [thread EXCEPT ![th].pc = "dump"]
              /\ store_result' = NoOutcome
              /\ UNCHANGED <<lock, running>>
         ELSE Raised(th) /\ UNCHANGED files

\* line 93
write_dump(th) ==
    /\ thread[th].pc = "dump"
    /\ UNCHANGED <<runs, found, last_left>>
    /\ \E io_ok \in BOOLEAN :
         IF io_ok
         THEN /\ files' = Dump(files, thread[th].items)
              /\ thread' = [thread EXCEPT ![th].pc = "replace"]
              /\ store_result' = NoOutcome
              /\ UNCHANGED <<lock, running>>
         ELSE Raised(th) /\ UNCHANGED files

\* line 96, and the return of the call: lines 144-153, 277-284, 34-41
write_replace(th) ==
    /\ thread[th].pc = "replace"
    /\ UNCHANGED <<running, runs, found>>
    /\ \E io_ok \in BOOLEAN :
         IF io_ok
         THEN /\ files' = Replace(files)
              /\ Return(th, thread[th].op, thread[th].sid,
                        IF thread[th].op = "cleanup_old_sessions"
                        THEN Len(thread[th].sessions_to_remove) ELSE TRUE, FALSE)
              /\ CASE thread[th].op = "init" -> UNCHANGED last_left
                   [] thread[th].op = "store_session" ->
                        Leaves(thread[th].sid, Get(thread[th].items, thread[th].sid))
                   [] thread[th].op = "remove_session" -> Leaves(thread[th].sid, NoMeta)
                   [] thread[th].op = "cleanup_old_sessions" ->
                        last_left' = [k \in Keys |->
                            IF \E i \in DOMAIN thread[th].sessions_to_remove :
                                   thread[th].sessions_to_remove[i] = k
                            THEN [meta |-> NoMeta, run |-> runs] ELSE last_left[k]]
         ELSE Raised(th) /\ UNCHANGED <<files, last_left>>

\* (the file is always created anew)
NeedsNewFile_always(fs) == TRUE
\* lines 45-71: the file does not exist, or reading it raises
NeedsNewFile(fs) == fs[storage_file].kind = "missing" \/ read_storage(fs).raised

\* lines 25-71, PersistentSessionStorage(storage_file) in a new process:
\* _ensure_storage_file writes {} when the file is missing or cannot be read
start ==
    /\ ~running
    /\ runs < MaxRuns
    /\ runs' = runs + 1
    /\ found' = files[storage_file].kind
    /\ running' = TRUE
    /\ lock' = NoThread
    /\ UNCHANGED <<files, last_left>>
    /\ IF NeedsNewFile(files)
       THEN Write(1, "init", NoKey, 0, 0, None, NoTime, <<>>)
       ELSE /\ store_result' = Outcome("init", NoKey, TRUE, FALSE)
            /\ UNCHANGED thread

\* the process dies: its threads and its lock are gone, the files stay
crash ==
    /\ running
    /\ running' = FALSE
    /\ thread' = [o \in Threads |-> IdleThread]
    /\ lock' = NoThread
    /\ store_result' = NoOutcome
    /\ UNCHANGED <<files, runs, found, last_left>>

\* what storage_file may hold when the first process starts
FoundContents ==
    {Missing, JsonDict(<<>>), Content("invalid", <<>>), Content("list", <<>>),
     Content("scalar", <<>>), Content("unreadable", <<>>)}

\* what store_session is called with: every kind of name and of creation
\* time, one user and one directory (the storage only copies those two)
SessionNames == {None, "", "n"}
CreationTimes == {NoTime, 0}
StoredUsers == {1}
StoredDirs == {1}
\* the max_age_days cleanup_old_sessions is called with
MaxAges == {1}

\* the storage alone: the pool and the service are not called
StoreOnly == UNCHANGED <<clock, active_sessions, clients, cleanup_task, sweep,
                         cancel_requested, shutdown_called, task, event, touched, pass,
                         removed_pending, factory_calls, request, response>>
\* a step inside a call
Inside == UNCHANGED requests

StoreInit ==
    /\ clock = 0
    /\ active_sessions = <<>>
    /\ clients = <<>>
    /\ cleanup_task = "none"
    /\ sweep = NoSweep
    /\ cancel_requested = FALSE
    /\ shutdown_called = FALSE
    /\ task = [t \in Tasks |-> Idle]
    /\ event = NoEvent
    /\ touched = {}
    /\ pass = NoPass
    /\ removed_pending = {}
    /\ \E c \in FoundContents :
          files = [p \in {storage_file, temp_file} |-> IF p = storage_file THEN c ELSE Missing]
    /\ lock = NoThread
    /\ thread = [th \in Threads |-> IdleThread]
    /\ running = FALSE
    /\ store_result = NoOutcome
    /\ runs = 0
    /\ found = "none"
    /\ last_left = NothingLeft
    /\ factory_calls = <<>>
    /\ request = [t \in Tasks |-> NoRequest]
    /\ response = NoResponse
    /\ requests = 0

StoreNext ==
    \/ \E th \in Threads, k \in Keys, u \in StoredUsers, wd \in StoredDirs,
          name \in SessionNames, created \in CreationTimes :
           store_session(th, k, u, wd, name, created) /\ StoreOnly
    \/ \E th \in Threads : store_session_locked(th) /\ Inside /\ StoreOnly
    \/ \E th \in Threads, k \in Keys : get_session_stored(th, k) /\ StoreOnly
    \/ \E th \in Threads, u \in Users :
           list_user_sessions_stored(th, u, default_limit, default_offset) /\ StoreOnly
    \/ \E th \in Threads, k \in Keys : remove_session(th, k) /\ StoreOnly
    \/ \E th \in Threads : remove_session_locked(th) /\ Inside /\ StoreOnly
    \/ \E th \in Threads, max_age_days \in MaxAges :
           cleanup_old_sessions(th, max_age_days) /\ StoreOnly
    \/ \E th \in Threads : cleanup_old_sessions_locked(th) /\ Inside /\ StoreOnly
    \/ \E th \in Threads : write_open(th) /\ Inside /\ StoreOnly
    \/ \E th \in Threads : write_dump(th) /\ Inside /\ StoreOnly
    \/ \E th \in Threads : write_replace(th) /\ Inside /\ StoreOnly
    \/ start /\ Inside /\ StoreOnly
    \/ crash /\ Inside /\ StoreOnly
    \/ Tick /\ PoolOnly

StoreSpec == StoreInit /\ [][StoreNext]_vars

\* ------------------------------------------- calls on a store with sessions
\* One call of list_user_sessions or of cleanup_old_sessions on a store that
\* earlier store_session calls have filled.

\* the keys of the sessions in the file, in the file's order
StoredKeyLists ==
    UNION {{ks \in [1..n -> 1..NumStored] : \A i, j \in 1..n : i # j => ks[i] # ks[j]} :
           n \in 0..NumStored}
\* files store_session calls leave: under each key the metadata of the key,
\* of any user and any creation time
StoredContents ==
    UNION {{[i \in DOMAIN ks |-> session_metadata(ks[i], us[i], 1, None, cs[i], cs[i])] :
              us \in [DOMAIN ks -> Users], cs \in [DOMAIN ks -> 0..MaxTime]} :
           ks \in StoredKeyLists}

\* the limit and offset list_user_sessions is called with (api/claude.py
\* lines 108-109: limit >= 1, offset >= 0)
PageLimits == {1, 2, default_limit}
PageOffsets == {0, 1, 2}

ContentsInit ==
    /\ clock = 0
    /\ active_sessions = <<>>
    /\ clients = <<>>
    /\ cleanup_task = "none"
    /\ sweep = NoSweep
    /\ cancel_requested = FALSE
    /\ shutdown_called = FALSE
    /\ task = [t \in Tasks |-> Idle]
    /\ event = NoEvent
    /\ touched = {}
    /\ pass = NoPass
    /\ removed_pending = {}
    /\ \E items \in StoredContents :
          files = [p \in {storage_file, temp_file} |->
                      IF p = storage_file THEN JsonDict(items) ELSE Missing]
    /\ lock = NoThread
    /\ thread = [th \in Threads |-> IdleThread]
    /\ running = TRUE
    /\ store_result = NoOutcome
    /\ runs = 1
    /\ found = "dict"
    /\ last_left = NothingLeft
    /\ factory_calls = <<>>
    /\ request = [t \in Tasks |-> NoRequest]
    /\ response = NoResponse
    /\ requests = MaxCalls - 1

ContentsNext ==
    \/ \E th \in Threads, u \in Users, limit \in PageLimits, offset \in PageOffsets :
           list_user_sessions_stored(th, u, limit, offset) /\ StoreOnly
    \/ \E th \in Threads, max_age_days \in MaxAges :
           cleanup_old_sessions(th, max_age_days) /\ StoreOnly
    \/ \E th \in Threads : cleanup_old_sessions_locked(th) /\ Inside /\ StoreOnly
    \/ \E th \in Threads : write_open(th) /\ Inside /\ StoreOnly
    \/ \E th \in Threads : write_dump(th) /\ Inside /\ StoreOnly
    \/ \E th \in Threads : write_replace(th) /\ Inside /\ StoreOnly
    \/ Tick /\ PoolOnly

ContentsSpec == ContentsInit /\ [][ContentsNext]_vars

\* ============================================================ ClaudeService
\* The service and the utilities over the pool and the storage, one call of
\* them at a time.  Inside one event loop a storage call is one step: it has
\* no await.

max_retries == 2

\* (the session id is passed as the resume token of a new session too)
ClaudeCodeOptions_resume_always(working_dir, is_new_session, session_id) ==
    [cwd |-> working_dir, permission_mode |-> "bypassPermissions",
     resume |-> session_id]
\* session_manager.py lines 125-129 (NoKey: resume=None)
ClaudeCodeOptions(working_dir, is_new_session, session_id) ==
    [cwd |-> working_dir, permission_mode |-> "bypassPermissions",
     resume |-> IF is_new_session THEN NoKey ELSE session_id]

\* session_manager.py lines 125-131 in a call get_or_create_session(k, wd,
\* new): the client this step constructs, if it constructs one, is made with
\* these options; unknown: the call found no entry and the storage has no
\* metadata of k
RecordCall(k, wd, new, unknown) ==
    factory_calls' =
        IF Len(clients') > Len(clients)
        THEN Append(factory_calls,
                    [session_id |-> k, working_dir |-> wd, is_new_session |-> new,
                     unknown |-> unknown, options |-> ClaudeCodeOptions(wd, new, k)])
        ELSE factory_calls

Unknown(k) == ~Has(active_sessions, k) /\ storage_get_session(files, k) = NoMeta

\* no call of the service is under way
AllIdle ==
    \A t \in Tasks : task[t].pc = "idle" /\ request[t].stage = "done"

\* a call of the service begins
NewRequest ==
    /\ AllIdle
    /\ requests < MaxRequests
    /\ requests' = requests + 1

\* ids uuid.uuid4() or the provider may give: used nowhere yet
FreshIds == {k \in FreshKeys : storage_get_session(files, k) = NoMeta}

\* the call has ended: its locals are gone
Done(r) == NoRequest

\* create_session, lines 102-167, after get_or_create_session: the metadata
\* is stored under the id the pool stored the client under (the result of
\* store_session is not looked at)
AfterCreate(t, r) ==
    /\ request' = [request EXCEPT ![t] = Done(r)]
    /\ IF event'.kind = "created"
       THEN \E io_ok \in BOOLEAN :
              /\ files' = storage_store_session(files, event'.sid, r.user_id,
                              r.working_dir, r.session_name, clock', clock', io_ok).files
              /\ response' = Response("create_session", "created", event'.sid, r.user_id)
       ELSE /\ files' = files
            /\ response' = Response("create_session", "RuntimeError", r.sid, r.user_id)

\* query, lines 204-263 (stream_response, lines 306-380, alike), after
\* get_or_create_session: the prompt is sent to the client; an exception of
\* the pool is retried once, after a sleep
AfterQuery(t, r) ==
    /\ files' = files
    /\ IF event'.kind \in {"created", "reused"}
       THEN /\ request' = [request EXCEPT ![t] = Done(r)]
            /\ response' = Response("query", "answered", r.sid, r.user_id)
       ELSE IF r.attempt < max_retries - 1
       THEN /\ request' = [request EXCEPT ![t] =
                               [r EXCEPT !.stage = "retry", !.attempt = @ + 1]]
            /\ response' = NoResponse
       ELSE /\ request' = [request EXCEPT ![t] = Done(r)]
            /\ response' = Response("query", "RuntimeError", r.sid, r.user_id)

\* session_utils.py lines 509-545, after get_or_create_session
AfterRecover(t, r) ==
    /\ files' = files
    /\ request' = [request EXCEPT ![t] = Done(r)]
    /\ response' = Response("recover_session",
                            IF event'.kind \in {"created", "reused"}
                            THEN "session_recreated" ELSE "error", r.sid, r.user_id)

\* delete_session, lines 545-573, after cleanup_session
AfterDelete(t, r) ==
    /\ request' = [request EXCEPT ![t] = Done(r)]
    /\ IF event'.kind \in {"true", "false"}
       THEN \E io_ok \in BOOLEAN :
              /\ files' = storage_remove_session(files, r.sid, io_ok).files
              /\ response' = Response("delete_session", "true", r.sid, r.user_id)
       ELSE /\ files' = files
            /\ response' = Response("delete_session", "KeyError", r.sid, r.user_id)

\* ------------------------------------------------------- stream_response
\* the locals of a stream_response call: chunks, the chunk types yielded so
\* far; messages, the number of messages read from the provider
StreamRequest(stage, k, u, wd, attempt, chunks, messages) ==
    [op |-> "stream_response", stage |-> stage, sid |-> k, user_id |-> u,
     working_dir |-> wd, session_name |-> None, attempt |-> attempt,
     chunks |-> chunks, messages |-> messages]
\* the sequence a stream_response call produced; failure: what raised in it
Stream(k, u, chunks, failure) ==
    [op |-> "stream_response", kind |-> "exhausted", sid |-> k, user_id |-> u,
     chunks |-> chunks, failure |-> failure]

\* (the exception ends the generator, nothing is yielded)
except_yield_nothing(chunks) == chunks
\* claude_service.py lines 363-380: except Exception, the ERROR chunk
except_yield(chunks) == Append(chunks, "error")

\* the generator ends: by the except clause when something raised
EndStream(t, r, chunks, failure) ==
    /\ request' = [request EXCEPT ![t] = Done(r)]
    /\ response' = Stream(r.sid, r.user_id,
                          IF failure = "none" THEN chunks ELSE except_yield(chunks),
                          failure)

\* stream_response, lines 295-317, after get_or_create_session: with the
\* client the prompt is sent next; an exception of the pool is retried once,
\* after a sleep, and then raised as RuntimeError
AfterStream(t, r) ==
    /\ files' = files
    /\ IF event'.kind \in {"created", "reused"}
       THEN /\ request' = [request EXCEPT ![t] = [r EXCEPT !.stage = "send"]]
            /\ response' = NoResponse
       ELSE IF r.attempt < max_retries - 1
       THEN /\ request' = [request EXCEPT ![t] =
                               [r EXCEPT !.stage = "retry", !.attempt = @ + 1]]
            /\ response' = NoResponse
       ELSE EndStream(t, r, r.chunks, "connection")

\* the call r of caller t has made a step of its call of the pool: when the
\* pool's call has ended, the code after it runs in the same step
AfterPoolCall(t, r) ==
    /\ UNCHANGED <<lock, thread, running, store_result, runs, found, last_left>>
    /\ IF task'[t].pc # "idle"
       THEN /\ request' = [request EXCEPT ![t] = [r EXCEPT !.stage = "pool"]]
            /\ response' = NoResponse
            /\ files' = files
       ELSE CASE r.op = "create_session" -> AfterCreate(t, r)
              [] r.op = "query" -> AfterQuery(t, r)
              [] r.op = "recover_session" -> AfterRecover(t, r)
              [] r.op = "delete_session" -> AfterDelete(t, r)
              [] r.op = "stream_response" -> AfterStream(t, r)

\* a call that ends without a call of the pool
Answer(t, r, kind) ==
    /\ request' = [request EXCEPT ![t] = Done(r)]
    /\ response' = Response(r.op, kind, r.sid, r.user_id)
    /\ UNCHANGED <<pool_vars, store_vars, factory_calls>>

\* claude_service.py lines 65-100: a temporary id is generated and
\* get_or_create_session(temp, working_dir, user, is_new_session=True) called
create_session(t, u, wd, name) ==
    /\ NewRequest
    /\ \E temp_session_id \in FreshIds :
         /\ get_or_create_session(t, temp_session_id, TRUE)
         /\ RecordCall(temp_session_id, wd, TRUE, Unknown(temp_session_id))
         /\ AfterPoolCall(t, Request("create_session", "pool", temp_session_id, u,
                                     wd, name, 0))

\* (the directory of the service is used, whatever the metadata says)
stored_working_dir_ignored(m) == 1
\* claude_service.py lines 186 and 276: session_metadata["working_directory"]
stored_working_dir(m) == m.working_directory

\* claude_service.py lines 177-203 (and 272-305): without metadata of the
\* session the call fails; else get_or_create_session(k, the stored working
\* directory, user, is_new_session=False)
query(t, k, u) ==
    /\ NewRequest
    /\ LET session_metadata_k == storage_get_session(files, k) IN
       IF session_metadata_k = NoMeta
       THEN Answer(t, Request("query", "done", k, u, NoDir, None, 0), "not_found")
       ELSE LET wd == stored_working_dir(session_metadata_k) IN
            /\ get_or_create_session(t, k, FALSE)
            /\ RecordCall(k, wd, FALSE, Unknown(k))
            /\ AfterPoolCall(t, Request("query", "pool", k, u, wd, None, 0))

\* claude_service.py lines 196-215: the next attempt, after the sleep
query_retry(t) ==
    /\ request[t].stage = "retry"
    /\ UNCHANGED requests
    /\ get_or_create_session(t, request[t].sid, FALSE)
    /\ RecordCall(request[t].sid, request[t].working_dir, FALSE, Unknown(request[t].sid))
    /\ AfterPoolCall(t, request[t])

\* session_utils.py lines 449-509, recover_session_with_manager(k, wd,
\* session_manager) with force_reconnect at its default: an active session
\* is left alone, else get_or_create_session(k, wd, .., is_new_session=False)
recover_session_with_manager(t, k, wd) ==
    /\ NewRequest
    /\ IF Has(active_sessions, k)
       THEN Answer(t, Request("recover_session", "done", k, NoUser, wd, None, 0),
                   "session_already_active")
       ELSE /\ get_or_create_session(t, k, FALSE)
            /\ RecordCall(k, wd, FALSE, Unknown(k))
            /\ AfterPoolCall(t, Request("recover_session", "pool", k, NoUser, wd, None, 0))

\* claude_service.py lines 270-305: without metadata of the session
\* ValueError is raised before anything is yielded; else the START chunk is
\* yielded and get_or_create_session(k, the stored working directory, user,
\* is_new_session=False) called
stream_response(t, k, u) ==
    /\ NewRequest
    /\ LET session_metadata_k == storage_get_session(files, k) IN
       IF session_metadata_k = NoMeta
       THEN /\ EndStream(t, StreamRequest("done", k, u, NoDir, 0, <<>>, 0), <<>>,
                         "not_found")
            /\ UNCHANGED <<pool_vars, store_vars, factory_calls>>
       ELSE LET wd == stored_working_dir(session_metadata_k) IN
            /\ get_or_create_session(t, k, FALSE)
            /\ RecordCall(k, wd, FALSE, Unknown(k))
            /\ AfterPoolCall(t, StreamRequest("pool", k, u, wd, 0, <<"start">>, 0))

\* lines 319-329: await client.query(request.query) returns or raises
stream_send(t) ==
    /\ request[t].op = "stream_response" /\ request[t].stage = "send"
    /\ \E raised \in BOOLEAN :
         IF raised THEN EndStream(t, request[t], request[t].chunks, "send")
         ELSE /\ request' = [request EXCEPT ![t].stage = "read"]
              /\ response' = NoResponse
    /\ UNCHANGED <<pool_vars, store_vars, factory_calls, requests>>

\* lines 331-354: the next step of client.receive_response(): a message
\* with blocks text blocks, a DELTA chunk for each; the end of the messages,
\* the COMPLETE chunk; or an exception
stream_read(t) ==
    /\ request[t].op = "stream_response" /\ request[t].stage = "read"
    /\ LET r == request[t] IN
       \/ /\ r.messages < MaxMessages
          /\ \E blocks \in 0..MaxBlocks :
               request' = [request EXCEPT ![t] =
                   [r EXCEPT !.messages = @ + 1,
                             !.chunks = @ \o [i \in 1..blocks |-> "delta"]]]
          /\ response' = NoResponse
       \/ EndStream(t, r, Append(r.chunks, "complete"), "none")
       \/ EndStream(t, r, r.chunks, "read")
    /\ UNCHANGED <<pool_vars, store_vars, factory_calls, requests>>

\* (the session is returned to any user)
service_get_session_any_user(fs, k, u) ==
    LET m == storage_get_session(fs, k) IN
    IF m = NoMeta THEN NoMeta
    ELSE [session_id |-> k, user_id |-> u, session_name |-> m.session_name,
          created_at |-> fromisoformat(m.created_at),
          updated_at |-> fromisoformat(m.updated_at),
          working_directory |-> m.working_directory]
\* claude_service.py lines 387-454: None without metadata and None for
\* another user's session
service_get_session(fs, k, u) ==
    LET m == storage_get_session(fs, k) IN
    IF m = NoMeta THEN NoMeta
    ELSE IF m.user_id # u THEN NoMeta
    ELSE [session_id |-> k, user_id |-> u, session_name |-> m.session_name,
          created_at |-> fromisoformat(m.created_at),
          updated_at |-> fromisoformat(m.updated_at),
          working_directory |-> m.working_directory]

\* claude_service.py lines 382-454
get_session(t, k, u) ==
    /\ NewRequest
    /\ Answer(t, Request("get_session", "done", k, u, NoDir, None, 0),
              IF service_get_session(files, k, u) = NoMeta THEN "None" ELSE "session")

\* claude_service.py lines 527-553: get_session, then cleanup_session(k)
delete_session(t, k, u) ==
    /\ NewRequest
    /\ IF service_get_session(files, k, u) = NoMeta
       THEN Answer(t, Request("delete_session", "done", k, u, NoDir, None, 0), "false")
       ELSE /\ cleanup_session(t, k)
            /\ RecordCall(k, NoDir, FALSE, FALSE)
            /\ AfterPoolCall(t, Request("delete_session", "pool", k, u, NoDir, None, 0))

\* a step of the pool inside the service call of t
InService(t) ==
    /\ request[t].stage = "pool"
    /\ UNCHANGED requests
    /\ RecordCall(task[t].sid, request[t].working_dir, task[t].is_new, FALSE)
    /\ AfterPoolCall(t, request[t])

\* core/lifecycle.py lines 69-79, in a new process: the registry of the old
\* process is gone, the storage is opened on the file the old one left
restart ==
    /\ AllIdle
    /\ runs < MaxRuns
    /\ active_sessions' = <<>>
    /\ clients' = <<>>
    /\ cleanup_task' = "none"
    /\ sweep' = NoSweep
    /\ event' = NoEvent
    /\ touched' = {}
    /\ pass' = NoPass
    /\ removed_pending' = {}
    /\ factory_calls' = <<>>
    /\ response' = NoResponse
    /\ runs' = runs + 1
    /\ found' = files[storage_file].kind
    /\ UNCHANGED <<clock, cancel_requested, shutdown_called, task, files, lock, thread,
                   running, store_result, last_left, request, requests>>

ServiceNext ==
    \/ \E t \in Tasks, u \in Users, wd \in WorkDirs, name \in {None, "n"} :
           create_session(t, u, wd, name)
    \/ \E t \in Tasks, k \in Keys, u \in Users : query(t, k, u)
    \/ \E t \in Tasks : query_retry(t)
    \/ \E t \in Tasks, k \in Keys, wd \in WorkDirs : recover_session_with_manager(t, k, wd)
    \/ \E t \in Tasks, k \in Keys, u \in Users : get_session(t, k, u)
    \/ \E t \in Tasks, k \in Keys, u \in Users : delete_session(t, k, u)
    \/ \E t \in Tasks : goc_after_disconnect(t) /\ InService(t)
    \/ \E t \in Tasks : goc_after_connect(t) /\ InService(t)
    \/ \E t \in Tasks : goc_after_sleep(t) /\ InService(t)
    \/ \E t \in Tasks : cs_after_disconnect(t) /\ InService(t)
    \/ \E h \in DOMAIN clients : ConnectionLost(h) /\ PoolOnly
    \/ restart

ServiceSpec == Init /\ [][ServiceNext]_vars

\* ----------------------------------------------- the streaming service
\* sessions are created and their answers streamed
StreamNext ==
    \/ \E t \in Tasks : create_session(t, 1, 1, None)
    \/ \E t \in Tasks, k \in Keys : stream_response(t, k, 1)
    \/ \E t \in Tasks : query_retry(t)
    \/ \E t \in Tasks : stream_send(t)
    \/ \E t \in Tasks : stream_read(t)
    \/ \E t \in Tasks : goc_after_disconnect(t) /\ InService(t)
    \/ \E t \in Tasks : goc_after_connect(t) /\ InService(t)
    \/ \E t \in Tasks : goc_after_sleep(t) /\ InService(t)
    \/ \E h \in DOMAIN clients : ConnectionLost(h) /\ PoolOnly
    \/ restart

StreamSpec == Init /\ [][StreamNext]_vars

\* ------------------------------------------ cleanup_orphaned_sessions
\* session_utils.py lines 646-729, cleanup_orphaned_sessions(session_manager,
\* session_storage, dry_run)

\* session_manager.py lines 420-427: list(self.active_sessions.keys())
get_active_session_ids(p) == {p[i].session_id : i \in DOMAIN p}

\* f"manager:{session_id}" and f"storage:{session_id}"
Mark(where, k) == <<where, k>>

\* the locals of a call: active_session_ids (line 675), the two differences
\* of lines 682-683, the ids the first loop has not come to yet, the lists of
\* cleanup_result so far; interleaved: another caller made a step of the pool
\* during the call
OrphanRequest(dry_run, active, in_manager, in_storage, left, cleaned_up, errors, interleaved) ==
    [op |-> "cleanup_orphaned_sessions", stage |-> "pool", sid |-> NoKey,
     user_id |-> NoUser, working_dir |-> NoDir, session_name |-> None, attempt |-> 0,
     dry_run |-> dry_run, active_session_ids |-> active,
     orphaned_in_manager |-> in_manager,
     orphaned_in_storage |-> in_storage, left |-> left, cleaned_up |-> cleaned_up,
     errors |-> errors, interleaved |-> interleaved]

\* cleanup_result, lines 663-670 and 729; failed_writes: the ids whose
\* remove_session returned False (the result does not tell)
Report(kind, r, cleaned_up, errors, failed_writes) ==
    [op |-> "cleanup_orphaned_sessions", kind |-> kind, sid |-> NoKey,
     user_id |-> NoUser, dry_run |-> r.dry_run,
     active_session_ids |-> r.active_session_ids,
     orphaned_in_manager |-> r.orphaned_in_manager,
     orphaned_in_storage |-> r.orphaned_in_storage,
     cleaned_up |-> cleaned_up, errors |-> errors,
     interleaved |-> r.interleaved, failed_writes |-> failed_writes]

\* lines 697-705: remove_session(k) for each k of ids, its result not looked
\* at; failing: the ids whose write raises
RECURSIVE remove_each(_, _, _)
remove_each(fs, ids, failing) ==
    IF ids = {} THEN fs
    ELSE LET k == CHOOSE k \in ids : TRUE IN
         remove_each(storage_remove_session(fs, k, k \notin failing).files,
                     ids \ {k}, failing)

\* lines 682-683
orphans(active, stored) ==
    [in_manager |-> active \ stored, in_storage |-> stored \ active]

\* lines 686-705, from the head of the first loop to the next disconnect()
\* or to the end: cleanup_session returns False at once for an id that is
\* no longer in the pool; the second loop has no await
OrphanLoop(t, r, p, cs) ==
    LET absent == {k \in r.left : ~Has(p, k)}
        present == r.left \ absent IN
    /\ active_sessions' = p
    /\ IF present = {}
       THEN \E failing \in SUBSET r.orphaned_in_storage :
              /\ files' = remove_each(files, r.orphaned_in_storage, failing)
              /\ clients' = cs
              /\ task' = [task EXCEPT ![t] = Idle]
              /\ request' = [request EXCEPT ![t] = Done(r)]
              /\ response' = Report("returned", r,
                     r.cleaned_up \cup {Mark("manager", k) : k \in absent}
                         \cup {Mark("storage", k) : k \in r.orphaned_in_storage},
                     r.errors, failing)
       ELSE \E skipped \in SUBSET absent : \E k \in present :
              LET h == Get(p, k).client IN
              /\ files' = files
              /\ clients' = CallDisconnect(cs, h)
              /\ task' = [task EXCEPT ![t] = [pc |-> "co_disconnect", sid |-> k,
                              is_new |-> FALSE, client |-> h, old |-> NoClient,
                              ids |-> <<>>]]
              /\ request' = [request EXCEPT ![t] =
                      [r EXCEPT !.left = r.left \ (skipped \cup {k}),
                                !.cleaned_up = @ \cup {Mark("manager", j) : j \in skipped}]]
              /\ response' = NoResponse

\* lines 660-695 and 707-729: the call; storage_data.keys() raises on data
\* that is no dict, which ends the call with an entry in errors
cleanup_orphaned_sessions(t, dry_run) ==
    /\ NewRequest
    /\ FreeSlot(t)
    /\ pass' = Interleaved
    /\ event' = NoEvent
    /\ UNCHANGED <<clock, cleanup_task, sweep, cancel_requested, shutdown_called, touched,
                   removed_pending, lock, thread, running, store_result, runs, found,
                   last_left, factory_calls>>
    /\ LET storage_data == read_storage(files)
           active == get_active_session_ids(active_sessions)
           none == OrphanRequest(dry_run, active, {}, {}, {}, {}, {}, FALSE) IN
       IF storage_data.raised \/ storage_data.data.kind # "dict"
       THEN /\ response' = Report("returned", none, {}, {Mark("cleanup", NoKey)}, {})
            /\ UNCHANGED <<active_sessions, clients, task, files, request>>
       ELSE LET o == orphans(active, get_active_session_ids(storage_data.data.items))
                r == OrphanRequest(dry_run, active, o.in_manager, o.in_storage,
                                   o.in_manager, {}, {}, FALSE) IN
            IF dry_run
            THEN /\ response' = Report("returned", r, {}, {}, {})
                 /\ UNCHANGED <<active_sessions, clients, task, files, request>>
            ELSE OrphanLoop(t, r, active_sessions, clients)

\* session_manager.py lines 243-272 inside the first loop, then lines
\* 688-705: the KeyError of del is caught by the loop, which goes on
co_after_disconnect(t) ==
    /\ task[t].pc = "co_disconnect"
    /\ pass' = Interleaved
    /\ UNCHANGED <<clock, cleanup_task, sweep, cancel_requested, shutdown_called, touched,
                   lock, thread, running, store_result, runs, found, last_left,
                   factory_calls, requests>>
    /\ \E outcome \in DisconnectOutcomes :
         LET k == task[t].sid
             h == task[t].client
             r == request[t]
             cs == EndDisconnect(clients, h, outcome) IN
         IF Has(active_sessions, k)
         THEN /\ removed_pending' = removed_pending \cup {k}
              /\ event' = Result("cleanup_session", "true", k, h)
              /\ OrphanLoop(t, [r EXCEPT !.cleaned_up = @ \cup {Mark("manager", k)}],
                            Del(active_sessions, k), cs)
         ELSE /\ removed_pending' = removed_pending
              /\ event' = Result("cleanup_session", "KeyError", k, h)
              /\ OrphanLoop(t, [r EXCEPT !.errors = @ \cup {Mark("manager", k)}],
                            active_sessions, cs)

\* a call of cleanup_orphaned_sessions is suspended
OrphanRunning == \E o \in Tasks : request[o].op = "cleanup_orphaned_sessions"

\* a step of another caller's call of the pool
Meanwhile ==
    /\ request' = [o \in Tasks |->
                      IF request[o].op = "cleanup_orphaned_sessions"
                      THEN [request[o] EXCEPT !.interleaved = TRUE] ELSE request[o]]
    /\ UNCHANGED <<store_vars, factory_calls, response, requests>>
\* a step of a call of the pool that no call of the service made
Direct(t) == request[t].stage = "done"

\* the files the process may find when it starts: the metadata of any of
\* the sessions, or JSON that is no object
StoredSets ==
    {JsonDict(items) : items \in
        {[i \in 1..Cardinality(S) |->
             session_metadata(CHOOSE k \in S : Cardinality({j \in S : j < k}) = i - 1,
                              1, 1, None, 0, 0)] : S \in SUBSET Keys}}
        \cup {Content("list", <<>>), Content("scalar", <<>>)}

OrphanInit ==
    /\ clock = 0
    /\ active_sessions = <<>>
    /\ clients = <<>>
    /\ cleanup_task = "none"
    /\ sweep = NoSweep
    /\ cancel_requested = FALSE
    /\ shutdown_called = FALSE
    /\ task = [t \in Tasks |-> Idle]
    /\ event = NoEvent
    /\ touched = {}
    /\ pass = NoPass
    /\ removed_pending = {}
    /\ \E c \in StoredSets :
         /\ files = [p \in {storage_file, temp_file} |->
                        IF p = storage_file THEN c ELSE Missing]
         /\ found = c.kind
    /\ lock = NoThread
    /\ thread = [th \in Threads |-> IdleThread]
    /\ running = TRUE
    /\ store_result = NoOutcome
    /\ runs = 1
    /\ last_left = NothingLeft
    /\ factory_calls = <<>>
    /\ request = [t \in Tasks |-> NoRequest]
    /\ response = NoResponse
    /\ requests = 0

OrphanNext ==
    \/ \E t \in Tasks : create_session(t, 1, 1, None)
    \/ \E t \in Tasks, k \in Keys : recover_session_with_manager(t, k, 1)
    \/ \E t \in Tasks, dry_run \in BOOLEAN : cleanup_orphaned_sessions(t, dry_run)
    \/ \E t \in Tasks : co_after_disconnect(t)
    \/ \E t \in Tasks : goc_after_connect(t) /\ InService(t)
    \/ \E t \in Tasks : goc_after_sleep(t) /\ InService(t)
    \/ \E t \in Tasks, k \in Keys :
           OrphanRunning /\ get_or_create_session(t, k, FALSE) /\ Meanwhile
    \/ \E t \in Tasks, k \in Keys : OrphanRunning /\ cleanup_session(t, k) /\ Meanwhile
    \/ \E t \in Tasks : Direct(t) /\ goc_after_disconnect(t) /\ Meanwhile
    \/ \E t \in Tasks : Direct(t) /\ goc_after_connect(t) /\ Meanwhile
    \/ \E t \in Tasks : Direct(t) /\ cs_after_disconnect(t) /\ Meanwhile
    \/ \E h \in DOMAIN clients : ConnectionLost(h) /\ PoolOnly

OrphanSpec == OrphanInit /\ [][OrphanNext]_vars

\* ------------------------------------------- concurrent new sessions
\* callers of get_or_create_session(temp, working_dir, user_id,
\* is_new_session=True), as create_session calls it (claude_service.py lines
\* 91-100), without waiting for one another

\* uuid.uuid4() of caller t: no two callers get the same, none is an id of
\* the provider
temp_session_id(t) == NumKeys + t

\* the arguments of such a call and, when it has ended, the id it stored the
\* client under and how it ended; overlapped: another such call was under
\* way when it began
NewSessionCall(stage, k, u, wd, outcome, overlapped) ==
    [op |-> GOC, stage |-> stage, sid |-> k, user_id |-> u, working_dir |-> wd,
     session_name |-> None, attempt |-> 0, outcome |-> outcome,
     overlapped |-> overlapped]

\* the call r of caller t has made a step
AfterNewSessionStep(t, r) ==
    /\ UNCHANGED store_vars
    /\ IF task'[t].pc # "idle"
       THEN /\ request' = [request EXCEPT ![t] = r]
            /\ response' = NoResponse
       ELSE /\ request' = [request EXCEPT ![t] =
                   [r EXCEPT !.stage = "done", !.sid = event'.sid,
                             !.outcome = event'.kind]]
            /\ response' = Response(GOC, event'.kind, event'.sid, r.user_id)

\* session_manager.py lines 63-132, the call
new_session(t, u, wd) ==
    /\ request[t].op = "none"
    /\ requests < MaxRequests
    /\ requests' = requests + 1
    /\ get_or_create_session(t, temp_session_id(t), TRUE)
    /\ RecordCall(temp_session_id(t), wd, TRUE, FALSE)
    /\ AfterNewSessionStep(t, NewSessionCall("pool", temp_session_id(t), u, wd, "none",
                                  \E o \in Tasks : request[o].stage = "pool"))

\* a step of the pool inside the call of t
InNewSession(t) ==
    /\ request[t].op = GOC /\ request[t].stage = "pool"
    /\ UNCHANGED requests
    /\ RecordCall(task[t].sid, request[t].working_dir, task[t].is_new, FALSE)
    /\ AfterNewSessionStep(t, request[t])

NewSessionsNext ==
    \/ \E t \in Tasks, u \in Users, wd \in WorkDirs : new_session(t, u, wd)
    \/ \E t \in Tasks : goc_after_connect(t) /\ InNewSession(t)
    \/ \E t \in Tasks : goc_after_sleep(t) /\ InNewSession(t)
    \/ \E h \in DOMAIN clients : ConnectionLost(h) /\ PoolOnly
    \/ Tick /\ PoolOnly

NewSessionsSpec == Init /\ [][NewSessionsNext]_vars

\* ------------------------------------------------- calls on several keys
\* the pool with callers of get_or_create_session(k, .., is_new_session=
\* False) on three keys and the cleanup task
ManyKeys == 1..(NumKeys + 1)

SeveralKeysNext ==
    \/ \E t \in Tasks, k \in ManyKeys : goc_call(t, k, FALSE, MaxClients + 1) /\ PoolOnly
    \/ \E t \in Tasks : goc_after_connect(t) /\ PoolOnly
    \/ sweep_wake /\ PoolOnly
    \/ sweep_after_disconnect /\ PoolOnly
    \/ Tick /\ PoolOnly

SeveralKeysSpec == Init /\ [][SeveralKeysNext]_vars

\* ------------------------------------------------- resumed sessions
\* sessions are created, their pool entries evicted (by cleanup_session, by
\* the cleanup task, by shutdown) or lost with the process, and then queried
Quiet(t) == AllIdle /\ FreeSlot(t)
\* the directory the sessions are created in: not the service's own
ResumeDirs == {NumDirs}

ResumeNext ==
    \/ \E t \in Tasks, wd \in ResumeDirs : create_session(t, 1, wd, None)
    \/ \E t \in Tasks, k \in Keys : query(t, k, 1)
    \/ \E t \in Tasks : query_retry(t)
    \/ \E t \in Tasks : goc_after_connect(t) /\ InService(t)
    \/ \E t \in Tasks : goc_after_sleep(t) /\ InService(t)
    \/ \E t \in Tasks, k \in Keys :
           Quiet(t) /\ Has(active_sessions, k) /\ cleanup_session(t, k) /\ PoolOnly
    \/ \E t \in Tasks : Direct(t) /\ cs_after_disconnect(t) /\ PoolOnly
    \/ \E t \in Tasks : Quiet(t) /\ shutdown(t) /\ PoolOnly
    \/ \E t \in Tasks : sd_after_await(t) /\ PoolOnly
    \/ \E t \in Tasks : sd_after_disconnect(t) /\ PoolOnly
    \/ sweep_wake /\ PoolOnly
    \/ sweep_after_disconnect /\ PoolOnly
    \/ sweep_cancelled /\ PoolOnly
    \/ Tick /\ PoolOnly
    \/ restart

ResumeSpec == Init /\ [][ResumeNext]_vars

\* ------------------------------------------------------ recover_session
\* session_utils.py lines 112-188, recover_session(session_id, project_root)
\* on the provider's record ~/.claude/projects/<project>/<session_id>.jsonl
session_file == "session_file"

\* a line of the record: a JSON object, JSON that is no object, an empty or
\* blank line, text that is no JSON, JSON nested too deep for the parser
LineKinds == {"object", "scalar", "blank", "garbage", "too_deep"}
\* line 167: json.loads(line.strip())
json_loads(line) ==
    CASE line \in {"object", "scalar"} -> "value"
      [] line \in {"blank", "garbage"} -> "JSONDecodeError"
      [] OTHER -> "RecursionError"

\* the record: "lines", a file that can be read; "no_access", a file that
\* os.access reports unreadable but open() opens; "unreadable", a file that
\* open() raises on; "missing", no file
Records ==
    {Content(kind, lines) : kind \in {"lines", "no_access"},
                            lines \in UNION {[1..n -> LineKinds] : n \in 0..MaxLines}}
        \cup {Content("unreadable", <<>>), Content("missing", <<>>)}

\* lines 161-169: the loop over the lines, up to the first exception that
\* is no JSONDecodeError
RECURSIVE validate_lines(_, _)
validate_lines(lines, acc) ==
    IF lines = <<>> THEN acc
    ELSE LET r == json_loads(Head(lines)) IN
         IF r = "value"
         THEN validate_lines(Tail(lines), [acc EXCEPT !.valid_lines = @ + 1])
         ELSE IF r = "JSONDecodeError"
         THEN validate_lines(Tail(lines), [acc EXCEPT !.invalid_lines = @ + 1])
         ELSE [acc EXCEPT !.raised = TRUE]

\* (a record with a valid line is recoverable, whatever its other lines)
recoverable_if_any_valid(readable, valid_lines, invalid_lines) ==
    readable /\ valid_lines > 0
\* lines 176-180
recoverable_if(readable, valid_lines, invalid_lines) ==
    readable /\ valid_lines > 0 /\ invalid_lines = 0

\* recovery_result, lines 130-138, 184 and 186
Recovery(k, exists, readable, v, recoverable) ==
    [op |-> "recover_session", kind |-> "report", sid |-> k, user_id |-> NoUser,
     exists |-> exists, readable |-> readable, valid_lines |-> v.valid_lines,
     invalid_lines |-> v.invalid_lines, validation_error |-> v.raised,
     recoverable |-> recoverable]

\* lines 112-188
recover_session_report(k, c) ==
    LET none == [valid_lines |-> 0, invalid_lines |-> 0, raised |-> FALSE] IN
    IF c.kind = "missing" THEN Recovery(k, FALSE, FALSE, none, FALSE)
    ELSE IF c.kind = "unreadable"
    THEN Recovery(k, TRUE, FALSE, [none EXCEPT !.raised = TRUE], FALSE)
    ELSE LET readable == c.kind = "lines"
             v == validate_lines(c.items, none) IN
         Recovery(k, TRUE, readable, v,
                  IF v.raised THEN FALSE
                  ELSE recoverable_if(readable, v.valid_lines, v.invalid_lines))

\* the call
recover_session(k) ==
    /\ requests < MaxCalls
    /\ requests' = requests + 1
    /\ response' = recover_session_report(k, files[session_file])
    /\ UNCHANGED <<pool_vars, store_vars, factory_calls, request>>

RecoverInit ==
    /\ clock = 0
    /\ active_sessions = <<>>
    /\ clients = <<>>
    /\ cleanup_task = "none"
    /\ sweep = NoSweep
    /\ cancel_requested = FALSE
    /\ shutdown_called = FALSE
    /\ task = [t \in Tasks |-> Idle]
    /\ event = NoEvent
    /\ touched = {}
    /\ pass = NoPass
    /\ removed_pending = {}
    /\ \E c \in Records :
         files = [p \in {storage_file, temp_file, session_file} |->
                     IF p = session_file THEN c
                     ELSE IF p = storage_file THEN JsonDict(<<>>) ELSE Missing]
    /\ lock = NoThread
    /\ thread = [th \in Threads |-> IdleThread]
    /\ running = TRUE
    /\ store_result = NoOutcome
    /\ runs = 1
    /\ found = "dict"
    /\ last_left = NothingLeft
    /\ factory_calls = <<>>
    /\ request = [t \in Tasks |-> NoRequest]
    /\ response = NoResponse
    /\ requests = 0

RecoverNext == \E k \in Keys : recover_session(k)

RecoverSpec == RecoverInit /\ [][RecoverNext]_vars

\* ------------------------------------------------------ _validate_client
\* session_manager.py lines 190-217, on a handle of any shape: the _session
\* attribute is absent, is None, holds a value, or raises when it is read
SessionAttrs == {"absent", "None", "value", "raises"}
Handles == {[key |-> k, state |-> "connected", session |-> a, closes |-> 0] :
                k \in Keys, a \in SessionAttrs}

\* (a client that has the attribute is valid)
validate_handle_hasattr(c) == c.session \notin {"absent", "raises"}
\* lines 200-217: hasattr(client, "_session"), client._session is not None,
\* except Exception: return False
validate_handle(c) ==
    CASE c.session = "absent" -> FALSE
      [] c.session = "raises" -> FALSE
      [] OTHER -> c.session # "None"

\* the call await self._validate_client(client)
validate(h) ==
    /\ event' = Result("_validate_client",
                       IF validate_handle(clients[h]) THEN "valid" ELSE "invalid",
                       clients[h].key, h)
    /\ UNCHANGED <<clock, active_sessions, clients, cleanup_task, sweep,
                   cancel_requested, shutdown_called, task, touched, pass,
                   removed_pending>>
    /\ PoolOnly

ValidateInit ==
    /\ clock = 0
    /\ active_sessions = <<>>
    /\ \E n \in 1..MaxClients : clients \in [1..n -> Handles]
    /\ cleanup_task = "none"
    /\ sweep = NoSweep
    /\ cancel_requested = FALSE
    /\ shutdown_called = FALSE
    /\ task = [t \in Tasks |-> Idle]
    /\ event = NoEvent
    /\ touched = {}
    /\ pass = NoPass
    /\ removed_pending = {}
    /\ files = [p \in {storage_file, temp_file} |->
                   IF p = storage_file THEN JsonDict(<<>>) ELSE Missing]
    /\ lock = NoThread
    /\ thread = [th \in Threads |-> IdleThread]
    /\ running = TRUE
    /\ store_result = NoOutcome
    /\ runs = 1
    /\ found = "dict"
    /\ last_left = NothingLeft
    /\ factory_calls = <<>>
    /\ request = [t \in Tasks |-> NoRequest]
    /\ response = NoResponse
    /\ requests = 0

ValidateNext == \E h \in DOMAIN clients : validate(h)

ValidateSpec == ValidateInit /\ [][ValidateNext]_vars

\* ------------------------------------------- generate_session_health_report
\* session_utils.py lines 549-640 and 732-823
high_active_sessions == 50     \* line 773
many_near_timeout == 10        \* line 781

\* lines 565-572: cleanup_task is not None and not cleanup_task.done()
cleanup_task_running == cleanup_task \in {"sleeping", "closing"}

\* lines 584 and 606-613: age = current_time - created_at, counted when
\* (current_time - session_timeout) < age < current_time
near_timeout(e, now) ==
    LET age == now - e.created_at IN
    (now - session_timeout) < age /\ age < now

\* lines 598-614: health_metrics["sessions_near_timeout"]
sessions_near_timeout(p, now) ==
    Cardinality({i \in DOMAIN p : near_timeout(p[i], now)})

\* lines 766-798: the issues and the overall health
HealthReport(not_running, high, near) ==
    LET issues == (IF not_running THEN 1 ELSE 0) + (IF high THEN 1 ELSE 0)
                      + (IF near THEN 1 ELSE 0) IN
    [op |-> "health_report", sid |-> NoKey, user_id |-> NoUser,
     kind |-> IF issues = 0 THEN "healthy"
              ELSE IF issues <= 2 THEN "warning" ELSE "critical",
     cleanup_not_running |-> not_running, high_active |-> high,
     near_timeout |-> near]

\* lines 732-823
generate_session_health_report ==
    /\ requests < MaxCalls
    /\ requests' = requests + 1
    /\ response' = HealthReport(~cleanup_task_running,
                                Len(active_sessions) > high_active_sessions,
                                sessions_near_timeout(active_sessions, clock)
                                    > many_near_timeout)
    /\ UNCHANGED <<pool_vars, store_vars, factory_calls, request>>

\* the pools the report is made on: so many entries just created and so many
\* created and last used one session_timeout ago
PoolSizes == {0, 1, many_near_timeout + 1, high_active_sessions - many_near_timeout}
HealthPool(fresh, idle, now) ==
    [i \in 1..(fresh + idle) |->
        IF i <= fresh THEN NewEntry(i, i, 1, 1, now, now)
        ELSE NewEntry(i, i, 1, 1, now - session_timeout, now - session_timeout)]

HealthInit ==
    /\ clock \in (Started + session_timeout)..(Started + session_timeout + MaxTime)
    /\ \E fresh \in PoolSizes, idle \in PoolSizes :
         /\ active_sessions = HealthPool(fresh, idle, clock)
         /\ clients = [h \in 1..(fresh + idle) |->
                          [NewClient(h, "connected") EXCEPT !.session = TRUE]]
    /\ cleanup_task \in {"none", "sleeping", "done"}
    /\ sweep = IF cleanup_task = "sleeping"
               THEN [NoSweep EXCEPT !.wake_at = clock + cleanup_interval]
               ELSE NoSweep
    /\ cancel_requested = FALSE
    /\ shutdown_called = FALSE
    /\ task = [t \in Tasks |-> Idle]
    /\ event = NoEvent
    /\ touched = {}
    /\ pass = NoPass
    /\ removed_pending = {}
    /\ files = [p \in {storage_file, temp_file} |->
                   IF p = storage_file THEN JsonDict(<<>>) ELSE Missing]
    /\ lock = NoThread
    /\ thread = [th \in Threads |-> IdleThread]
    /\ running = TRUE
    /\ store_result = NoOutcome
    /\ runs = 1
    /\ found = "dict"
    /\ last_left = NothingLeft
    /\ factory_calls = <<>>
    /\ request = [t \in Tasks |-> NoRequest]
    /\ response = NoResponse
    /\ requests = 0

HealthNext == generate_session_health_report

HealthSpec == HealthInit /\ [][HealthNext]_vars

\* ------------------------------------- shutdown() during creations in flight
\* The instant at which shutdown() is called (session_manager.py lines
\* 382-418) while calls of get_or_create_session are suspended in connect()
\* (line 132) or in the sleep after it (line 137): caller t is creating
\* client t, the pool may hold a session created before, and the caller of
\* shutdown takes the next free slot.
Callers == 1..(NumTasks + 1)
Pooled == NumTasks + 1
InFlight(k, new, h, pc) ==
    [pc |-> pc, sid |-> k, is_new |-> new, client |-> h, old |-> NoClient, ids |-> <<>>]
Suspended(t) ==
    {Idle} \cup {InFlight(k, FALSE, t, "goc_connect") : k \in Keys}
           \cup {InFlight(k, TRUE, t, pc) : k \in Keys, pc \in {"goc_connect", "goc_sleep"}}
\* the client caller t constructed: connecting, connected (line 132 done),
\* or one whose connect() failed before
ClientOf(tk) ==
    IF tk.pc = "idle" THEN NewClient(1, "failed")
    ELSE IF tk.pc = "goc_connect" THEN NewClient(tk.sid, "connecting")
    ELSE [NewClient(tk.sid, "connected") EXCEPT !.session = TRUE]

ShutdownInit ==
    /\ clock = 0
    /\ \E tk \in [Tasks -> UNION {Suspended(t) : t \in Tasks}], pooled \in {NoKey} \cup Keys :
         /\ \A t \in Tasks : tk[t] \in Suspended(t)
         /\ tk[1] # Idle
         /\ task = [t \in Callers |-> IF t \in Tasks THEN tk[t] ELSE Idle]
         /\ clients = [h \in 1..(IF pooled = NoKey THEN NumTasks ELSE Pooled) |->
                          IF h \in Tasks THEN ClientOf(tk[h])
                          ELSE [NewClient(pooled, "connected") EXCEPT !.session = TRUE]]
         /\ active_sessions = IF pooled = NoKey THEN <<>>
                              ELSE <<NewEntry(pooled, Pooled, 1, 1, 0, 0)>>
         /\ cleanup_task \in IF pooled = NoKey THEN {"none", "sleeping"} ELSE {"sleeping"}
    /\ sweep = IF cleanup_task = "sleeping"
               THEN [NoSweep EXCEPT !.wake_at = cleanup_interval] ELSE NoSweep
    /\ cancel_requested = FALSE
    /\ shutdown_called = FALSE
    /\ event = NoEvent
    /\ touched = {}
    /\ pass = NoPass
    /\ removed_pending = {}
    /\ files = [p \in {storage_file, temp_file} |->
                   IF p = storage_file THEN JsonDict(<<>>) ELSE Missing]
    /\ lock = NoThread
    /\ thread = [th \in Threads |-> IdleThread]
    /\ running = TRUE
    /\ store_result = NoOutcome
    /\ runs = 1
    /\ found = "dict"
    /\ last_left = NothingLeft
    /\ factory_calls = <<>>
    /\ request = [t \in Tasks |-> NoRequest]
    /\ response = NoResponse
    /\ requests = 0

\* shutdown() is called, and then everything that is suspended goes on
ShutdownNext ==
    \/ \E t \in Callers :
           /\ task[t].pc = "idle" /\ \A u \in Callers : u < t => task[u].pc # "idle"
           /\ shutdown(t) /\ PoolOnly
    \/ \E t \in Callers : sd_after_await(t) /\ PoolOnly
    \/ \E t \in Callers : sd_after_disconnect(t) /\ PoolOnly
    \/ \E t \in Tasks : shutdown_called /\ goc_after_connect(t) /\ PoolOnly
    \/ \E t \in Tasks : shutdown_called /\ goc_after_sleep(t) /\ PoolOnly
    \/ shutdown_called /\ sweep_wake /\ PoolOnly
    \/ shutdown_called /\ sweep_after_disconnect /\ PoolOnly
    \/ sweep_cancelled /\ PoolOnly
    \/ shutdown_called /\ Tick /\ PoolOnly

ShutdownSpec == ShutdownInit /\ [][ShutdownNext]_vars

\* ------------------------------------------------ the pool, scheduled fairly
\* The pool before shutdown() under a fair event loop: time passes, the
\* sleep of the cleanup task (line 291) ends when it is due, and a
\* disconnect() the cleanup task awaits (line 243) returns or raises.
FairNext ==
    \/ \E t \in Tasks, k \in Keys, new \in BOOLEAN :
           get_or_create_session(t, k, new) /\ PoolOnly
    \/ \E t \in Tasks : goc_after_connect(t) /\ PoolOnly
    \/ \E t \in Tasks : goc_after_sleep(t) /\ PoolOnly
    \/ \E t \in Tasks, k \in Keys : cleanup_session(t, k) /\ PoolOnly
    \/ \E t \in Tasks : cs_after_disconnect(t) /\ PoolOnly
    \/ sweep_wake /\ PoolOnly
    \/ sweep_after_disconnect /\ PoolOnly
    \/ Tick /\ PoolOnly

FairSpec ==
    /\ Init
    /\ [][FairNext]_vars
    /\ WF_vars(Tick /\ PoolOnly)
    /\ WF_vars(sweep_wake /\ PoolOnly)
    /\ WF_vars(sweep_after_disconnect /\ PoolOnly)

\* ================================================================ claims

\* a step in which some caller calls get_or_create_session(k, ..)
GocCallStep(k) ==
    \E t \in Tasks :
        /\ task[t].pc = "idle"
        /\ \/ task'[t].pc \in {"goc_disconnect", "goc_connect"} /\ task'[t].sid = k
           \/ event'.op = GOC /\ event'.sid = k /\ task' = task

\* a step in which some caller calls cleanup_session(k)
CleanupCallStep(k) ==
    \E t \in Tasks :
        /\ task[t].pc = "idle"
        /\ \/ task'[t].pc = "cs_disconnect" /\ task'[t].sid = k
           \/ event'.op = "cleanup_session" /\ event'.sid = k /\ task' = task

\* C1: callers that are inside get_or_create_session(k, is_new_session=False)
\* at the same time, each having found no entry for k, hold one and the same
\* client: the factory was invoked once for k.
C1_OneFactoryCallPerColdKey ==
    \A t1, t2 \in Tasks :
        ( /\ t1 # t2
          /\ task[t1].pc = "goc_connect" /\ task[t2].pc = "goc_connect"
          /\ task[t1].sid = task[t2].sid
          /\ ~task[t1].is_new /\ ~task[t2].is_new
          /\ task[t1].old = NoClient /\ task[t2].old = NoClient )
        => task[t1].client = task[t2].client

\* C2: for each session key at most one connection is live (connected by the
\* factory, no close attempt made on it yet), in the pool or not.
C2_AtMostOneLiveConnection ==
    \A k \in Keys :
        Cardinality({h \in DOMAIN clients : Live(h) /\ clients[h].key = k}) <= 1

\* C3: a sweep pass never evicts an entry whose last_used was set by a
\* successful get_or_create_session after the pass took its snapshot.
C3_SweepSparesTouched ==
    [][(event'.op = "sweep" /\ event'.kind = "evicted") => event'.sid \notin touched]_vars

\* C4: when shutdown() returns the pool is empty and every client the factory
\* connected has received exactly one close attempt.
C4_ShutdownClosesAll ==
    (event.op = "shutdown" /\ event.kind = "returned")
    => /\ active_sessions = <<>>
       /\ \A h \in DOMAIN clients :
              clients[h].state = "connected" => clients[h].closes = 1

\* C5: a sweep pass no caller's step interleaves with, which read the clock
\* at time t, leaves in the pool exactly the entries with
\* t - last_used <= session_timeout, unchanged and in their order.
C5_SweepEvictsExactlyIdle ==
    [][( /\ event'.op = "sweep"
         /\ event'.kind \in {"snapshot", "evicted"}
         /\ event'.clean
         /\ cleanup_task' = "sleeping" )
       => LET p0 == IF cleanup_task = "sleeping" THEN active_sessions ELSE pass.pool
              t0 == IF cleanup_task = "sleeping" THEN clock ELSE pass.time
          IN active_sessions' =
                 SelectSeq(p0, LAMBDA e : ~(t0 - e.last_used > session_timeout))]_vars

\* a clean pass has just ended: it evicted an entry and kept another
C5_Witness ==
    /\ event.op = "sweep" /\ event.kind = "evicted" /\ event.clean
    /\ cleanup_task = "sleeping"
    /\ active_sessions # <<>>

\* C6: when the factory fails, get_or_create_session raises the
\* creation-failed error leaving no entry for the key in the pool and the
\* entries of the other keys as they were.
C6_NoEntryAfterCreationFailed ==
    [][(event'.op = GOC /\ event'.kind = "creation_failed")
       => /\ ~Has(active_sessions', event'.sid)
          /\ Del(active_sessions', event'.sid) = Del(active_sessions, event'.sid)]_vars

\* C7: get_or_create_session on a key whose entry exists and whose client is
\* connected returns that client, creates no client and changes nothing but
\* the entry's last_used.
C7_ReuseNeverCallsFactory ==
    [][\A k \in Keys :
         ( /\ GocCallStep(k)
           /\ Has(active_sessions, k)
           /\ clients[Get(active_sessions, k).client].session )
         => /\ event' = Result(GOC, "reused", k, Get(active_sessions, k).client)
            /\ clients' = clients
            /\ task' = task
            /\ active_sessions' =
                   [active_sessions EXCEPT ![Index(active_sessions, k)].last_used = clock]]_vars

\* an entry was reused some time after it was created
C7_Witness ==
    /\ event.op = GOC /\ event.kind = "reused"
    /\ Has(active_sessions, event.sid)
    /\ Get(active_sessions, event.sid).client = event.client
    /\ Get(active_sessions, event.sid).last_used > Get(active_sessions, event.sid).created_at

\* C8: once cleanup_session has removed the entry of a key, a
\* get_or_create_session on the key returns no client before the factory has
\* been invoked again for the key, and the client it returns is the one the
\* pool holds, none that was evicted.
C8_FactoryReinvokedAfterEviction ==
    (event.op = GOC /\ event.kind = "reused")
    => /\ event.sid \notin removed_pending
       /\ Has(active_sessions, event.sid)
       /\ Get(active_sessions, event.sid).client = event.client

\* C9: a get_or_create_session that found the entry's client invalid ends
\* with no error of the eviction; when it returns, it returns a new client,
\* the old one has had a close attempt and the pool's entry holds the new one.
C9_SilentRecreation ==
    [][\A t \in Tasks :
         (task[t].old # NoClient /\ task'[t].pc = "idle")
         => /\ event'.op = GOC
            /\ event'.kind \in {"created", "creation_failed"}
            /\ event'.kind = "created"
               => /\ event'.client # task[t].old
                  /\ clients'[task[t].old].closes >= 1
                  /\ Has(active_sessions', event'.sid)
                  /\ Get(active_sessions', event'.sid).client = event'.client]_vars

\* C10: cleanup_session on a key that has no entry returns False and changes
\* nothing; a cleanup_session that returns True leaves no entry for the key,
\* so that the same call made next returns False.
C10_CleanupAbsentReturnsFalse ==
    [][/\ \A k \in Keys :
            (CleanupCallStep(k) /\ ~Has(active_sessions, k))
            => /\ event' = Result("cleanup_session", "false", k, NoClient)
               /\ active_sessions' = active_sessions
               /\ clients' = clients
               /\ task' = task
       /\ (event'.op = "cleanup_session" /\ event'.kind = "true")
            => ~Has(active_sessions', event'.sid)]_vars

\* cleanup_session returned False for a key whose entry was evicted before
C10_Witness ==
    /\ event.op = "cleanup_session" /\ event.kind = "false"
    /\ \E h \in DOMAIN clients : clients[h].key = event.sid /\ clients[h].closes >= 1
    /\ active_sessions # <<>>

\* C11: when disconnect() raises during cleanup_session(k) (the client's
\* session is still set after the call), the entry of k is removed and the
\* call returns True: no exception reaches the caller.
C11_EvictionDespiteDisconnectError ==
    [][\A t \in Tasks :
         ( /\ task[t].pc = "cs_disconnect"
           /\ task'[t].pc = "idle"
           /\ clients'[task[t].client].session )
         => /\ event' = Result("cleanup_session", "true", task[t].sid, task[t].client)
            /\ ~Has(active_sessions', task[t].sid)]_vars

\* C12: every client constructed inside get_or_create_session(k, wd, .., new)
\* is constructed with options whose cwd is wd and whose resume token is None
\* when new is true and k when new is false.
C12_FactoryOptions ==
    \A h \in DOMAIN factory_calls :
        LET c == factory_calls[h] IN
        /\ c.options.cwd = c.working_dir
        /\ c.options.resume = IF c.is_new_session THEN NoKey ELSE c.session_id

\* a session was made as a new one, then a client was made to resume it
C12_Witness ==
    /\ Len(factory_calls) = 2
    /\ factory_calls[1].is_new_session /\ factory_calls[1].options.resume = NoKey
    /\ ~factory_calls[2].is_new_session
    /\ factory_calls[2].options.resume = clients[1].key
    /\ clients[1].state = "connected" /\ clients[2].state = "connected"
    /\ response.op = "query" /\ response.kind = "answered"
    /\ response.sid = clients[1].key

\* C13: a get_or_create_session(k, is_new_session=False) that finds no entry
\* of k while the storage holds no metadata of k follows one of the two
\* policies: it fails as not found, or it invokes the factory with
\* resume=None; so no client is ever constructed for such a call with k as
\* its resume token.
C13_UnknownKeyPolicy ==
    \A h \in DOMAIN factory_calls :
        LET c == factory_calls[h] IN
        (c.unknown /\ ~c.is_new_session) => c.options.resume = NoKey

\* a step in which get_session(k, u) or delete_session(k, u) of the service
\* is called
OwnerCallStep(op, k, u) ==
    /\ requests' = requests + 1
    /\ \/ response'.op = op /\ response'.sid = k /\ response'.user_id = u
       \/ \E t \in Tasks : /\ request'[t].op = op /\ request'[t].stage = "pool"
                           /\ request'[t].sid = k /\ request'[t].user_id = u

\* the negative result of the service call
Negative(op) == IF op = "get_session" THEN "None" ELSE "false"

\* C14: get_session(k, u) and delete_session(k, u) of the service, called by
\* a user u that is not the stored owner of k, return what they return for a
\* key without metadata (None, False) and leave the storage and the pool as
\* they were: nothing is deleted, no client is closed.
C14_OtherOwnerIsNotFound ==
    [][\A op \in {"get_session", "delete_session"}, k \in Keys, u \in Users :
         ( /\ OwnerCallStep(op, k, u)
           /\ \/ storage_get_session(files, k) = NoMeta
              \/ storage_get_session(files, k).user_id # u )
         => /\ response' = Response(op, Negative(op), k, u)
            /\ files' = files
            /\ active_sessions' = active_sessions
            /\ clients' = clients]_vars

\* delete_session was refused to a user that does not own the session, which
\* has its metadata and its live client in the pool
C14_Witness ==
    /\ response.op = "delete_session" /\ response.kind = "false"
    /\ storage_get_session(files, response.sid) # NoMeta
    /\ storage_get_session(files, response.sid).user_id # response.user_id
    /\ Has(active_sessions, response.sid)
    /\ Live(Get(active_sessions, response.sid).client)

\* C15: the durable file never holds the beginning of a write: whenever its
\* content changes, a process dying at any point included, the new content
\* is the complete data of the write that replaced it, and the process
\* started after a crash finds the file as the crash left it.
C15_WriteIsAllOrNothing ==
    [][/\ files'[storage_file].kind # "partial"
       /\ files'[storage_file] # files[storage_file]
            => \E th \in Threads : /\ thread[th].pc = "replace"
                                   /\ files'[storage_file] = JsonDict(thread[th].items)
       /\ (~running /\ running' /\ files[storage_file].kind = "dict")
            => files'[storage_file] = files[storage_file]]_vars

\* a process died inside a write, leaving the beginning of the new data in
\* the temporary file, and the next process runs on the previous data
C15_Witness ==
    /\ running /\ runs = 2
    /\ files[temp_file].kind = "partial"
    /\ files[storage_file].kind = "dict" /\ files[storage_file].items # <<>>

\* C16: get_session(k) returns exactly what the last store_session or
\* remove_session that succeeded on k left for it, in the process that made
\* that call and in every process started later on the same file.
C16_ReopenedStoreReturnsLastValues ==
    /\ store_result.op = "get_session"
          => store_result.ret = last_left[store_result.sid].meta
    /\ (running /\ \A th \in Threads : thread[th].op # "init")
          => \A k \in Keys : storage_get_session(files, k) = last_left[k].meta

\* the second process returns the metadata the first one stored
C16_Witness ==
    /\ runs = 2
    /\ store_result.op = "get_session"
    /\ store_result.ret # NoMeta
    /\ last_left[store_result.sid].run = 1
    /\ store_result.ret = last_left[store_result.sid].meta

\* a store_session of th on key k succeeds in this step
StoreSucceeds(th, k) ==
    /\ thread[th].pc = "replace"
    /\ thread[th].op = "store_session"
    /\ thread[th].sid = k
    /\ store_result' = Outcome("store_session", k, TRUE, FALSE)

\* C17: after a store_session(k, ..) that succeeded, get_session(k) gives
\* the key, the user, the directory, the name and the creation time of the
\* call, and an updated_at later than the one the key had before.
C17_RoundTripAndUpdatedAtAdvances ==
    [][\A th \in Threads, k \in Keys :
         StoreSucceeds(th, k) =>
            LET before == storage_get_session(files, k)
                after == storage_get_session(files', k)
            IN /\ after.session_id = k
               /\ after.user_id = thread[th].user_id
               /\ after.working_directory = thread[th].working_directory
               /\ thread[th].session_name # None
                    => after.session_name = thread[th].session_name
               /\ thread[th].created_at # NoTime
                    => fromisoformat(after.created_at) = thread[th].created_at
               /\ before # NoMeta
                    => fromisoformat(after.updated_at) > fromisoformat(before.updated_at)]_vars

\* C18: a store opened on a file that is no JSON is constructed without an
\* exception and is empty while the file stays as it is (get_session gives
\* None for every key, list_user_sessions [] for every user); a
\* store_session that meets no I/O error returns True, and get_session then
\* gives what it stored.
C18_UnparseableFileIsEmptyStore ==
    found = "invalid" =>
        /\ store_result.op = "init" => store_result.ret
        /\ (running /\ files[storage_file].kind = "invalid") =>
              /\ \A k \in Keys : storage_get_session(files, k) = NoMeta
              /\ \A u \in Users :
                    storage_list_user_sessions(files, u, default_limit, default_offset) = <<>>
              /\ store_result.op = "get_session" => store_result.ret = NoMeta
              /\ store_result.op = "list_user_sessions" => store_result.ret = <<>>
        /\ (store_result.op = "store_session" /\ ~store_result.io_error) =>
              /\ store_result.ret
              /\ storage_get_session(files, store_result.sid) # NoMeta
              /\ storage_get_session(files, store_result.sid) = last_left[store_result.sid].meta

\* the process that found a file that is no JSON stored a session and got it back
C18_Witness ==
    /\ found = "invalid" /\ runs = 1 /\ running
    /\ store_result.op = "get_session"
    /\ store_result.ret # NoMeta
    /\ store_result.ret = last_left[store_result.sid].meta

\* C19: a store opened on a file that holds JSON other than an object, or
\* that cannot be read, is constructed (short of an I/O error of its own
\* write) and empty, and a store_session that meets no I/O error returns
\* True, get_session then giving what it stored.
C19_StructurallyInvalidFileIsReset ==
    found \in {"list", "scalar", "unreadable"} =>
        /\ store_result.op = "init" => (store_result.ret \/ store_result.io_error)
        /\ (store_result.op = "get_session" /\ last_left = NothingLeft)
              => store_result.ret = NoMeta
        /\ (store_result.op = "store_session" /\ ~store_result.io_error) =>
              /\ store_result.ret
              /\ storage_get_session(files, store_result.sid) # NoMeta
              /\ storage_get_session(files, store_result.sid) = last_left[store_result.sid].meta

\* C20: the file changes only by the write of the thread that holds the
\* lock, and what that thread writes is its change applied to the content
\* the file has at that moment: no call overwrites what another call wrote
\* since it read the file.
C20_NoLostUpdate ==
    [][(running /\ files'[storage_file] # files[storage_file]) =>
          \E th \in Threads :
             LET a == thread[th]
                 data == read_storage(files).data.items
                 written == files'[storage_file]
             IN /\ a.pc = "replace"
                /\ a.op = "init" \/ lock = th
                /\ \A o \in Threads \ {th} : thread[o].pc \in {"idle", "lock"}
                /\ CASE a.op = "store_session" ->
                          written = JsonDict(Put(data, a.sid, Get(a.items, a.sid)))
                     [] a.op = "remove_session" -> written = JsonDict(Del(data, a.sid))
                     [] a.op = "cleanup_old_sessions" ->
                          written = JsonDict(without_sessions(data, a.sessions_to_remove))
                     [] OTHER -> written = JsonDict(<<>>)]_vars

\* two store_session calls on different keys overlapped: the second thread
\* called while the first was in its call, waited for the lock, and now
\* writes a file that holds both keys
C20_Witness ==
    \E th, o \in Threads :
        /\ o < th
        /\ thread[o].pc = "idle"
        /\ thread[th].pc = "replace" /\ thread[th].op = "store_session"
        /\ lock = th
        /\ store_result = NoOutcome
        /\ \E k \in Keys \ {thread[th].sid} :
              /\ last_left[k].meta # NoMeta
              /\ storage_get_session(files, k) = last_left[k].meta
              /\ Has(thread[th].items, k)
        /\ Has(thread[th].items, thread[th].sid)

\* the remove_session(k) of th returns in this step, no write having raised
RemoveReturns(th, k) ==
    /\ thread[th].op = "remove_session"
    /\ thread[th].sid = k
    /\ thread[th].pc \in {"lock", "replace"}
    /\ thread'[th].pc = "idle"
    /\ running'
    /\ store_result'.op = "remove_session"
    /\ ~store_result'.io_error

\* C21: remove_session(k) returns True whether k is stored or not; after it
\* get_session(k) gives None and every other key has the metadata it had,
\* and another remove_session(k) would leave the files as they are.
C21_RemoveIsIdempotent ==
    [][\A th \in Threads, k \in Keys :
         RemoveReturns(th, k) =>
            /\ store_result'.ret = TRUE
            /\ storage_get_session(files', k) = NoMeta
            /\ \A j \in Keys \ {k} :
                  storage_get_session(files', j) = storage_get_session(files, j)
            /\ storage_remove_session(files', k, TRUE).files = files']_vars

\* the sessions of user u in the file
SessionsOf(fs, u) ==
    {fs[storage_file].items[i] : i \in {j \in DOMAIN fs[storage_file].items :
                                           fs[storage_file].items[j].user_id = u}}
\* the orders of a set of sessions that are descending in created_at
DescendingLists(S) ==
    {F \in [1..Cardinality(S) -> S] :
        /\ \A i, j \in DOMAIN F : i # j => F[i] # F[j]
        /\ \A i, j \in DOMAIN F :
              i < j => fromisoformat(F[i].created_at) >= fromisoformat(F[j].created_at)}
\* page is the elements of F at the positions offset .. offset + limit - 1,
\* counted from 0, that F has
IsPage(page, F, limit, offset) ==
    /\ Len(page) = (IF Cardinality(DOMAIN F) - offset < 0 THEN 0
                    ELSE IF Cardinality(DOMAIN F) - offset < limit
                    THEN Cardinality(DOMAIN F) - offset ELSE limit)
    /\ \A i \in DOMAIN page : page[i] = F[offset + i]

\* C22: what list_user_sessions(u, limit, offset) returned is the page
\* offset .. offset + limit - 1 of a list of all the sessions of u, and of
\* them only, that descends in created_at.
C22_ListIsPageOfDescendingList ==
    store_result.op = "list_user_sessions" =>
        LET r == store_result IN
        /\ \E F \in DescendingLists(SessionsOf(files, r.user_id)) :
              IsPage(r.ret, F, r.limit, r.offset)
        /\ Len(r.ret) <= r.limit
        /\ \A i \in DOMAIN r.ret : r.ret[i].user_id = r.user_id

\* the page returned is the second of three sessions of one user that the
\* file holds oldest first, next to no other: offset 1, limit 1
C22_Witness ==
    LET items == files[storage_file].items IN
    /\ store_result.op = "list_user_sessions"
    /\ Len(items) = 3
    /\ \A i \in 1..3 : items[i].user_id = 1 /\ fromisoformat(items[i].created_at) = i - 1
    /\ store_result.ret = <<items[2]>>
    /\ store_result.limit = 1 /\ store_result.offset = 1

\* the cleanup_old_sessions of th returns in this step, no write having raised
CleanupReturns(th) ==
    /\ thread[th].op = "cleanup_old_sessions"
    /\ thread[th].pc \in {"lock", "replace"}
    /\ thread'[th].pc = "idle"
    /\ running'
    /\ store_result'.op = "cleanup_old_sessions"
    /\ ~store_result'.io_error

\* C23: cleanup_old_sessions(max_age_days) takes the time of its call less
\* max_age_days as cutoff; when it returns, the file holds the sessions it
\* held that were not created before the cutoff, as they were and in their
\* order, and the number returned is the number of the others.
C23_CleanupRemovesExactlyOld ==
    [][\A th \in Threads :
         /\ (thread[th].pc = "idle" /\ thread'[th].op = "cleanup_old_sessions")
               => \E max_age_days \in MaxAges :
                     thread'[th].cutoff_date = clock - max_age_days
         /\ CleanupReturns(th) =>
               LET cutoff_date == thread[th].cutoff_date
                   before == files[storage_file].items
                   Old(m) == fromisoformat(m.created_at) < cutoff_date
               IN /\ files'[storage_file] =
                        JsonDict(SelectSeq(before, LAMBDA m : ~Old(m)))
                  /\ store_result'.ret =
                        Cardinality({i \in DOMAIN before : Old(before[i])})]_vars

\* a cleanup removed one of three sessions and returned 1
C23_Witness ==
    /\ store_result.op = "cleanup_old_sessions"
    /\ ~store_result.io_error
    /\ store_result.ret = 1
    /\ Len(files[storage_file].items) = 2
    /\ requests = MaxCalls
    /\ \A th \in Threads : thread[th].pc = "idle"

\* the ids the store holds metadata of
StoreKeys(fs) == {k \in Keys : storage_get_session(fs, k) # NoMeta}

\* a step that is a call cleanup_orphaned_sessions(.., dry_run) returning
\* without having been suspended
OrphanCallReturns(dry_run) ==
    /\ requests' = requests + 1
    /\ response'.op = "cleanup_orphaned_sessions"
    /\ response'.dry_run = dry_run

\* C24: cleanup_orphaned_sessions(pool, store, dry_run=True) leaves the
\* pool's entries, the clients (no disconnect() is called on any) and the
\* store's files as they were, and reports as orphans exactly the pool's keys
\* that the store lacks and the store's keys that the pool lacks.
C24_DryRunOnlyReports ==
    [][OrphanCallReturns(TRUE) =>
          /\ active_sessions' = active_sessions
          /\ clients' = clients
          /\ files' = files
          /\ response'.orphaned_in_manager =
                 get_active_session_ids(active_sessions) \ StoreKeys(files)
          /\ response'.orphaned_in_storage =
                 StoreKeys(files) \ get_active_session_ids(active_sessions)]_vars

\* a step in which a call cleanup_orphaned_sessions(.., dry_run=False)
\* returns
OrphanCleanupReturns ==
    /\ response'.op = "cleanup_orphaned_sessions"
    /\ ~response'.dry_run
    /\ \/ requests' = requests + 1
       \/ \E t \in Tasks : task[t].pc = "co_disconnect" /\ task'[t].pc = "idle"

\* C25: cleanup_orphaned_sessions(pool, store, dry_run=False) has called
\* cleanup_session for every key the pool held and the store lacked at the
\* call and has removed the metadata of every key the store held and the
\* pool lacked; a key held by both has had no call made for it and keeps its
\* metadata; when no other caller made a step during the call, the pool-only
\* keys are gone from the pool, the keys held by both are still in it with
\* their entries, and the pool's key set equals the store's when it returns.
\* (Writes of the store that raise an I/O error apart.)
C25_OrphansAreCleanedUp ==
    [][OrphanCleanupReturns /\ response'.failed_writes = {} =>
          LET r == response'
              active == r.active_session_ids
              stored == StoreKeys(files)
              called == {m[2] : m \in r.cleaned_up \cup r.errors} IN
          /\ \A k \in active \ stored : Mark("manager", k) \in r.cleaned_up \cup r.errors
          /\ \A k \in stored \ active :
                 /\ Mark("storage", k) \in r.cleaned_up
                 /\ storage_get_session(files', k) = NoMeta
          /\ \A k \in active \cap stored :
                 /\ k \notin called
                 /\ storage_get_session(files', k) = storage_get_session(files, k)
          /\ ~r.interleaved =>
                 /\ \A k \in active \ stored : ~Has(active_sessions', k)
                 /\ \A k \in active \cap stored :
                        /\ Has(active_sessions, k) /\ Has(active_sessions', k)
                        /\ Get(active_sessions', k) = Get(active_sessions, k)
                 /\ get_active_session_ids(active_sessions') = StoreKeys(files')]_vars

\* the terminal events of a stream
Terminal == {"complete", "error"}
\* the streams that came to their end in this state and those under way
Ended == IF response.op = "stream_response" THEN {response} ELSE {}
UnderWay == {request[t] : t \in {u \in Tasks : request[u].op = "stream_response"}}

\* C26: the sequence of events of a stream_response call that has come to
\* its end holds exactly one terminal event (complete or error), which is its
\* last event, and a call that is under way has yielded no terminal event
\* yet; when the store has no metadata of the session, or obtaining the
\* connection, sending the prompt or reading the provider's messages raised,
\* the sequence ends with an error event, and else with a complete event.
C26_OneTerminalEventLast ==
    /\ \A s \in Ended :
         /\ s.chunks # <<>>
         /\ \A i \in DOMAIN s.chunks : s.chunks[i] \in Terminal <=> i = Len(s.chunks)
         /\ s.chunks[Len(s.chunks)] = IF s.failure = "none" THEN "complete" ELSE "error"
    /\ \A r \in UnderWay : \A i \in DOMAIN r.chunks : r.chunks[i] \notin Terminal

\* a stream that failed while the provider's messages were read, after
\* chunks of the answer had been yielded, has come to its end
C26_Witness ==
    /\ response.op = "stream_response"
    /\ response.failure = "read"
    /\ Len(response.chunks) >= 3
    /\ response.chunks[2] = "delta"

\* a step in which get_or_create_session(k, ..) returns the client of the
\* entry it found (reused) or of the entry it stored (created)
Accessed(k, kind) == event'.op = GOC /\ event'.kind = kind /\ event'.sid = k

\* C27: every pool entry has last_used >= created_at, with last_used =
\* created_at in the step that stores it, and every successful
\* get_or_create_session on an entry that is reused leaves its last_used
\* strictly greater than it was.
C27_LastUsedAdvances ==
    [][/\ \A i \in DOMAIN active_sessions' :
              active_sessions'[i].last_used >= active_sessions'[i].created_at
       /\ \A k \in Keys :
              /\ Accessed(k, "created") =>
                     Get(active_sessions', k).last_used = Get(active_sessions', k).created_at
              /\ Accessed(k, "reused") =>
                     Get(active_sessions', k).last_used > Get(active_sessions, k).last_used]_vars

\* two calls get_or_create_session(.., is_new_session=True) of different
\* owners, one begun while the other was under way, have both returned a
\* client
BothCreated(t1, t2) ==
    /\ t1 # t2
    /\ \A t \in {t1, t2} :
           request[t].op = GOC /\ request[t].stage = "done" /\ request[t].outcome = "created"
    /\ request[t1].overlapped \/ request[t2].overlapped
    /\ request[t1].user_id # request[t2].user_id

\* C28: two concurrent get_or_create_session(.., is_new_session=True) calls
\* of two different owners end with two pool entries under two distinct
\* session ids, the entry of each call holding the client made for it and the
\* user_id and working_dir the call was made with, and with exactly two
\* ClaudeSDKClient(options) invocations.
C28_ConcurrentNewSessions ==
    \A t1, t2 \in Tasks :
        BothCreated(t1, t2) =>
            /\ request[t1].sid # request[t2].sid
            /\ Len(active_sessions) = 2
            /\ Len(factory_calls) = 2 /\ Len(clients) = 2
            /\ \A t \in {t1, t2} :
                   /\ Has(active_sessions, request[t].sid)
                   /\ LET e == Get(active_sessions, request[t].sid) IN
                      /\ e.user_id = request[t].user_id
                      /\ e.working_dir = request[t].working_dir
                      /\ factory_calls[e.client].session_id = temp_session_id(t)
                      /\ factory_calls[e.client].working_dir = request[t].working_dir
            /\ Get(active_sessions, request[t1].sid).client #
                   Get(active_sessions, request[t2].sid).client

\* both calls ended, in different directories, under ids the provider
\* assigned
C28_Witness ==
    /\ BothCreated(1, 2)
    /\ request[1].working_dir # request[2].working_dir
    /\ request[1].sid \in Keys /\ request[2].sid \in Keys

\* get_or_create_session(b, ..) can be called: a caller is free and, where
\* the call would construct a client, one more may be constructed
Callable_goc(b) ==
    /\ \E t \in Tasks : task[t].pc = "idle"
    /\ \/ Has(active_sessions, b) /\ validate_client(Get(active_sessions, b).client)
       \/ Len(clients) + Reserved < MaxClients + 1

\* C29: whatever the calls on other keys and the cleanup task are suspended
\* in, a call get_or_create_session(b, ..) can begin, and a call on b that
\* is suspended in connect() can go on as soon as connect() has finished: no
\* step of a call on one key waits for a call or an eviction of another key.
C29_NoCrossKeyWaiting ==
    \A b \in ManyKeys :
        /\ Callable_goc(b) =>
               ENABLED (\E t \in Tasks : goc_call(t, b, FALSE, MaxClients + 1) /\ PoolOnly)
        /\ \A t \in Tasks :
               task[t].pc = "goc_connect" /\ task[t].sid = b =>
                   ENABLED (goc_after_connect(t) /\ PoolOnly)

\* a call on b has returned a client in the last step, while a call on
\* another key a is suspended in connect() and the cleanup task in
\* disconnect() of a third key
C29_Witness ==
    \E a, b \in ManyKeys :
        /\ a # b
        /\ \E t \in Tasks : task[t].pc = "goc_connect" /\ task[t].sid = a
        /\ cleanup_task = "closing" /\ sweep.key \notin {a, b}
        /\ event.op = GOC /\ event.sid = b /\ event.kind \in {"reused", "created"}

\* a step in which the create_session call of caller t returns a session
CreateReturns(t) ==
    /\ request[t].op = "create_session" /\ request[t].stage = "pool"
    /\ request'[t].stage = "done"
    /\ response'.op = "create_session" /\ response'.kind = "created"

\* C30: when create_session returns a session with id k, the storage holds
\* metadata of k with the caller's user_id and working directory and the
\* pool holds an entry under k; when k is not the temporary id of the call
\* (the provider assigned it), nothing is held under the temporary id.
C30_CreatedSessionIsStoredAndPooled ==
    [][\A t \in Tasks :
          CreateReturns(t) =>
              LET k == response'.sid
                  temp == request[t].sid
                  m == storage_get_session(files', k) IN
              /\ m # NoMeta
              /\ m.user_id = request[t].user_id
              /\ m.working_directory = request[t].working_dir
              /\ Has(active_sessions', k)
              /\ Get(active_sessions', k).user_id = request[t].user_id
              /\ Get(active_sessions', k).working_dir = request[t].working_dir
              /\ k # temp => /\ ~Has(active_sessions', temp)
                             /\ storage_get_session(files', temp) = NoMeta]_vars

\* a step in which a client is constructed to resume a session: the record
\* of the construction
Resumed ==
    IF Len(factory_calls') > Len(factory_calls)
          /\ ~factory_calls'[Len(factory_calls')].is_new_session
    THEN {factory_calls'[Len(factory_calls')]} ELSE {}

\* C31: the storage changes in no step but the one in which create_session
\* stores the metadata of the session it made (no cleanup_session, eviction
\* by the cleanup task, shutdown, new process or get_or_create_session
\* changes it); and the client a query constructs for a session whose pool
\* entry is gone is made with the working directory of the stored metadata
\* and with the session id as resume token.
C31_StoreIsAuthoritative ==
    [][/\ files' # files => \E t \in Tasks : CreateReturns(t)
       /\ \A c \in Resumed :
              LET m == storage_get_session(files, c.session_id) IN
              /\ m # NoMeta
              /\ c.options.cwd = m.working_directory
              /\ c.options.resume = c.session_id]_vars

\* a session was created, its entry evicted in the same process, and a
\* query has been answered by a client made to resume it
C31_Witness ==
    /\ runs = 1
    /\ Len(factory_calls) = 2
    /\ factory_calls[1].is_new_session
    /\ clients[1].closes = 1
    /\ ~factory_calls[2].is_new_session
    /\ factory_calls[2].session_id = clients[1].key
    /\ factory_calls[2].options.cwd = NumDirs
    /\ response.op = "query" /\ response.kind = "answered"

\* a line that is an entry: it holds JSON
WellFormed(line) == line \in {"object", "scalar"}

\* C32: recover_session reports recoverable = True exactly when the record
\* exists, is readable, holds at least one line that is valid JSON and holds
\* no line that is not; for a missing, unreadable or empty record and for a
\* record with a malformed line it reports False.
C32_RecoverableIffValidRecord ==
    response.op = "recover_session" /\ response.kind = "report" =>
        LET c == files[session_file] IN
        response.recoverable <=>
            /\ c.kind = "lines"
            /\ \E i \in DOMAIN c.items : WellFormed(c.items[i])
            /\ \A i \in DOMAIN c.items : WellFormed(c.items[i])

\* a record whose last line is blank, after valid entries, was reported
\* not recoverable
C32_Witness ==
    /\ response.op = "recover_session" /\ response.kind = "report"
    /\ ~response.recoverable
    /\ response.valid_lines = 2 /\ response.invalid_lines = 1
    /\ files[session_file].items[3] = "blank"

\* C34: _validate_client answers True only for a handle that has the _session
\* attribute with a value in it; a handle without the attribute, with the
\* attribute None, or whose inspection raises is answered False; and the
\* validation makes no call on the handle: the clients are as they were.
C34_ValidOnlyWhenConnected ==
    [][event'.op = "_validate_client" =>
          /\ clients' = clients
          /\ event'.kind \in {"valid", "invalid"}
          /\ event'.kind = "valid" <=> clients[event'.client].session = "value"]_vars

\* a handle whose inspection raised was answered invalid
C34_Witness ==
    /\ event.op = "_validate_client" /\ event.kind = "invalid"
    /\ clients[event.client].session = "raises"

\* an entry near its timeout: its idle time has reached session_timeout, so
\* that the next moment makes it due for eviction
NearTimeout(e, now) == now - e.last_used = session_timeout

\* C35: the health report is healthy exactly when none of the three
\* conditions holds, warning or critical otherwise, and critical when all
\* three hold; each condition is reported exactly when it holds: the cleanup
\* task is not running, more than 50 entries are in the pool, more than 10
\* entries of the pool are near their timeout.
C35_HealthFollowsHeuristics ==
    response.op = "health_report" =>
        LET not_running == cleanup_task \notin {"sleeping", "closing"}
            high == Len(active_sessions) > 50
            near == Cardinality({i \in DOMAIN active_sessions :
                                   NearTimeout(active_sessions[i], clock)}) > 10
        IN /\ response.cleanup_not_running <=> not_running
           /\ response.high_active <=> high
           /\ response.near_timeout <=> near
           /\ response.kind = "healthy" <=> ~(not_running \/ high \/ near)
           /\ response.kind \in {"healthy", "warning", "critical"}
           /\ not_running /\ high /\ near => response.kind = "critical"

\* caller t is inside the creation of a client
Creating(t) == task[t].pc \in {"goc_connect", "goc_sleep"}
\* a step of shutdown()
ShutdownStep ==
    \/ ~shutdown_called /\ shutdown_called'
    \/ \E t \in DOMAIN task : task[t].pc \in {"sd_await", "sd_disconnect"} /\ task'[t] # task[t]
\* client h is the client of an entry of the pool
InPool(p, h) == \E i \in DOMAIN p : p[i].client = h

\* C33: shutdown() leaves alone the creations that are in flight when it
\* starts (no step of shutdown changes such a call or its client), and once
\* such a creation has ended, its client is in an entry of the pool for as
\* long as it is connected and no disconnect() was called on it.
C33_ShutdownKeepsCreationsTracked ==
    [][/\ ShutdownStep =>
            \A t \in Tasks : Creating(t) =>
                /\ task'[t] = task[t]
                /\ clients'[task[t].client] = clients[task[t].client]
       /\ shutdown_called' =>
            \A h \in Tasks :
                (/\ clients'[h].state = "connected" /\ clients'[h].closes = 0
                 /\ \A t \in Tasks : ~(task'[t].pc \in {"goc_connect", "goc_sleep"}
                                         /\ task'[t].client = h))
                => InPool(active_sessions', h)]_vars

\* C36: two calls of cleanup_session on the same key that overlap never
\* raise: each returns True or False, the client gets its disconnect() from
\* one of them only, and the entries of the other keys are left as they are.
C36_OverlappingCleanupIsSafe ==
    [][/\ \A t \in Tasks :
            task[t].pc = "cs_disconnect" /\ task'[t].pc = "idle" =>
                /\ event'.op = "cleanup_session" /\ event'.kind \in {"true", "false"}
                /\ \A i \in DOMAIN active_sessions :
                       active_sessions[i].session_id # task[t].sid =>
                           \E j \in DOMAIN active_sessions' :
                               active_sessions'[j] = active_sessions[i]
       /\ \A t, u \in Tasks :
            (/\ t # u
             /\ task'[t].pc = "cs_disconnect" /\ task'[u].pc = "cs_disconnect"
             /\ task'[t].sid = task'[u].sid)
            => task'[t].client # task'[u].client]_vars

\* the cleanup task is alive: sleeping between two passes, or inside a pass
SweepAlive(c) == c \in {"sleeping", "closing"}

\* C37: the cleanup task survives its own errors: a step of a running task
\* leaves it running, with the next pass due one cleanup_interval after the
\* end of a pass, whatever happened to the evictions of the pass; the task
\* ends only by the cancellation that shutdown() requests.
C37_SweepSurvivesErrors ==
    [][SweepAlive(cleanup_task) =>
          \/ /\ SweepAlive(cleanup_task')
             /\ cleanup_task = "closing" /\ cleanup_task' = "sleeping"
                    => sweep'.wake_at = clock' + cleanup_interval
          \/ cancel_requested /\ shutdown_called]_vars

\* the entry of k is due before the clock's bound is reached
Expiring(k) ==
    /\ Has(active_sessions, k)
    /\ Get(active_sessions, k).last_used + session_timeout < MaxTime

\* C38: before shutdown and under fair scheduling, a cleanup task is alive
\* whenever the pool holds an entry (there is one task at most: the one
\* cleanup_task refers to), and every entry is evicted in the end unless it
\* is used again.
C38_EveryIdleEntryIsEvicted ==
    /\ [](active_sessions # <<>> => cleanup_task \in {"sleeping", "closing"})
    /\ \A k \in Keys : [](Expiring(k) => <>(~Expiring(k)))

\* C39: the client get_or_create_session returns, reused or created, is one
\* on which no disconnect() has been called when the call returns.
C39_ReturnedHandleIsNotClosing ==
    (event.op = GOC /\ event.kind \in {"reused", "created"})
    => clients[event.client].closes = 0

\* C40: a session that is in the pool and in the storage has one owner: the
\* user_id of the pool's entry is the user_id of the stored metadata.
C40_PoolOwnerIsStoredOwner ==
    \A k \in Keys :
        LET m == storage_get_session(files, k) IN
        (Has(active_sessions, k) /\ m # NoMeta)
        => Get(active_sessions, k).user_id = m.user_id

====
